---- MODULE Spec2Model ----
(***************************************************************************)
(* The access-controlled referral store of hospiref-bridge: the tables of  *)
(* the first migration, their row-level-security policies (all migrations  *)
(* applied), the identifier generator and its insert triggers, the public  *)
(* read function get_referral_public, and the client handlers that issue   *)
(* the writes.                                                             *)
(*                                                                         *)
(* Conventions.  SQL NULL is the string "NULL" (NULL) for identities, keys *)
(* and enumerations, and the one-element text NullText for texts that are  *)
(* modelled character by character (the business identifiers).  A          *)
(* comparison with NULL is never true (SqlEq).  auth.uid() of a caller     *)
(* without a session is NULL.  A table is a function from row keys to      *)
(* rows.  `last` is the response the client received for the latest        *)
(* request.                                                                *)
(***************************************************************************)
EXTENDS Naturals, Sequences, FiniteSets, Bags, TLC

\* The fields of the model's records (columns of the tables, fields of the
\* responses and of the clients' state) and the rank of each: every record
\* lists its fields by increasing rank, the order TLC keeps them in.
FieldOrder ==
  [absent |-> 1, name |-> 2, city |-> 3, state |-> 4, address |-> 5,
   phone |-> 6, description |-> 7, op |-> 8, none |-> 9, referral_id |-> 10,
   status |-> 11, referring_doctor_id |-> 12, target_specialist_id |-> 13,
   origin_hospital_id |-> 14, pc |-> 15, caller |-> 16, arg |-> 17,
   key |-> 18, table |-> 19, supplied |-> 20, id |-> 21, role |-> 22,
   outcome |-> 23, rows |-> 24, shown |-> 25, row |-> 26, patch |-> 27,
   doctor_id |-> 28, department_id |-> 29, hospital_id |-> 30,
   hospitals |-> 31, departments |-> 32, fetching |-> 33, fetches |-> 34,
   open |-> 35, doctors |-> 36, hospital_assignments |-> 37,
   department_assignments |-> 38, dialogOpen |-> 39,
   target_hospital_id |-> 40, target_department_id |-> 41, urgency |-> 42,
   handlers |-> 43, reason |-> 44, notes |-> 45, specialist_notes |-> 46,
   appointment_date |-> 47, created_at |-> 48, patient_full_name |-> 49,
   patient_id |-> 50, full_name |-> 51, medical_history |-> 52,
   current_hospital_id |-> 53, referring_doctor_name |-> 54,
   target_specialist_name |-> 55, origin_hospital_name |-> 56,
   origin_hospital_city |-> 57, origin_hospital_state |-> 58,
   target_hospital_name |-> 59, target_hospital_city |-> 60,
   target_hospital_state |-> 61, target_department_name |-> 62,
   target_department_description |-> 63, patient |-> 64,
   referring_doctor |-> 65, target_specialist |-> 66, origin_hospital |-> 67,
   target_hospital |-> 68, target_department |-> 69, specialization |-> 70,
   referral |-> 71, referrals |-> 72, selectedReferral |-> 73,
   updateData |-> 74, selectedDoctor |-> 75, selectedHospitals |-> 76,
   selectedDepartments |-> 77, pending |-> 78, saved |-> 79, auth |-> 80,
   user |-> 81, session |-> 82, profile |-> 83, loading |-> 84,
   initial |-> 85, getSession |-> 86, fetched |-> 87, deferred |-> 88,
   signingIn |-> 89, signingOut |-> 90, updating |-> 91, toast |-> 92,
   referralDetails |-> 93, before |-> 94, error |-> 95, data |-> 96,
   stage |-> 97, result |-> 98]

VARIABLES profiles, hospitals, departments, patients, referrals,
          doctor_hospitals, doctor_departments, sessions, last

vars == <<profiles, hospitals, departments, patients, referrals,
          doctor_hospitals, doctor_departments, sessions, last>>

\* ------------------------------------------------------------ bounds
\* Rows the referrals / patients tables may hold in the model.
MaxReferrals == 2
MaxPatients == 2
\* The random source of the generators yields FLOOR(RANDOM() * RandomScale)
\* in 0 .. MaxRandom in the model (the code: 0 .. RandomScale - 1).
MaxRandom == 1
\* Identities that sign up in SpecProfiles.
MaxIdentities == 2
\* The rows the two junction tables hold at most, together.
MaxAssignments == 2
\* The callbacks of one useAuth hook that may be waiting at a time.
MaxCallbacks == 2

\* ------------------------------------------------------------ values
NULL == "NULL"
NullText == <<"NULL">>
NoRow == [absent |-> TRUE]

Users == {"u1", "u2", "u3", "u4", "u5", "u6"}
\* A caller is an identity, or NULL for a request without a session.
Callers == Users \cup {NULL}
Hospitals == {"h1", "h2"}
Departments == {"d1", "d2"}

user_role == {"admin", "doctor", "specialist", "patient"}
referral_status == {"pending", "in_progress", "completed", "cancelled"}
urgency_level == {"low", "medium", "high", "critical"}

\* handle_new_user's full_name: the sign-up metadata's, one per identity here.
NameOf(u) == "name-" \o u

\* a = b in SQL's three-valued logic, as a policy or WHERE clause reads it:
\* a comparison with NULL is not true.
SqlEq(a, b) == a # NULL /\ b # NULL /\ a = b

\* ------------------------------------------------------------ texts
\* Business identifiers are texts, kept as sequences of characters.
UpperChar(c) ==
  CASE c = "r" -> "R" [] c = "e" -> "E" [] c = "f" -> "F"
    [] c = "p" -> "P" [] c = "a" -> "A" [] c = "t" -> "T"
    [] c = "x" -> "X"
    [] OTHER -> c

LowerChar(c) ==
  CASE c = "R" -> "r" [] c = "E" -> "e" [] c = "F" -> "f"
    [] c = "P" -> "p" [] c = "A" -> "a" [] c = "T" -> "t"
    [] c = "X" -> "x"
    [] OTHER -> c

\* A comparison that does not fold case: the text as it is.
UpperIdentity(s) == s

\* UPPER(text) of Postgres.
UPPER(s) == [i \in DOMAIN s |-> UpperChar(s[i])]

DigitChars == <<"0", "1", "2", "3", "4", "5", "6", "7", "8", "9">>

\* n::TEXT for a non-negative integer.
RECURSIVE IntToText(_)
IntToText(n) ==
  IF n < 10 THEN <<DigitChars[n + 1]>>
  ELSE IntToText(n \div 10) \o <<DigitChars[(n % 10) + 1]>>

\* RPAD(s, len, fill): the fill goes to the right.
RPAD(s, len, fill) ==
  IF Len(s) >= len THEN SubSeq(s, 1, len)
  ELSE s \o [i \in 1..(len - Len(s)) |-> fill]

\* LPAD(s, len, fill) with a one-character fill: truncates on the right when
\* s is longer than len, pads on the left otherwise.
LPAD(s, len, fill) ==
  IF Len(s) >= len THEN SubSeq(s, 1, len)
  ELSE [i \in 1..(len - Len(s)) |-> fill] \o s

\* TO_CHAR(NOW(), 'YYYY') at the time of the model's requests.
CurrentYear == <<"2", "0", "2", "5">>

RandomScale == 999999
IdDigits == 6

\* FLOOR(RANDOM() * 999999): the values the model's random source yields.
RandomDraws == {n \in 0..MaxRandom : n < RandomScale}

\* The candidate generate_referral_id / generate_patient_id builds from one
\* draw of the random source.
ReferralCandidate(n) ==
  <<"R", "E", "F", "-">> \o CurrentYear \o <<"-">> \o LPAD(IntToText(n), IdDigits, "0")

PatientCandidate(n) ==
  <<"P", "A", "T", "-">> \o CurrentYear \o <<"-">> \o LPAD(IntToText(n), IdDigits, "0")

\* ------------------------------------------------------------ rows
\* The profiles of the fixed dataset: an admin, a doctor of each hospital, a
\* specialist of h1, a specialist no hospital was allocated to yet, a patient.
StaffProfiles ==
  [u \in Users |->
     CASE u = "u1" -> [role |-> "admin", hospital_id |-> NULL, full_name |-> NameOf(u)]
       [] u = "u2" -> [role |-> "doctor", hospital_id |-> "h1", full_name |-> NameOf(u)]
       [] u = "u3" -> [role |-> "doctor", hospital_id |-> "h2", full_name |-> NameOf(u)]
       [] u = "u4" -> [role |-> "specialist", hospital_id |-> "h1", full_name |-> NameOf(u)]
       [] u = "u5" -> [role |-> "specialist", hospital_id |-> NULL, full_name |-> NameOf(u)]
       [] OTHER -> [role |-> "patient", hospital_id |-> NULL, full_name |-> NameOf(u)]]

HospitalRows ==
  [h \in Hospitals |->
     [name |-> "name-" \o h, city |-> "city-" \o h, state |-> "state-" \o h,
      address |-> "addr-" \o h, phone |-> "phone-" \o h]]

DepartmentRows ==
  [d \in Departments |->
     [name |-> "name-" \o d, description |-> "descr-" \o d,
      hospital_id |-> IF d = "d1" THEN "h1" ELSE "h2"]]

NoRows == [k \in {} |-> NoRow]

\* gen_random_uuid() for a new row: a key no row of the table has.
NewKey(table, max) == CHOOSE k \in 1..max : k \notin DOMAIN table /\ \A j \in 1..(k - 1) : j \in DOMAIN table

\* The table with one more row.
WithRow(table, k, row) == [j \in DOMAIN table \cup {k} |-> IF j = k THEN row ELSE table[j]]

\* The table without the rows of the keys given.
WithoutRows(table, keys) == [j \in DOMAIN table \ keys |-> table[j]]

\* ------------------------------------------------------------ role lookup
\* has_profile_role(_user_id, _role): SECURITY DEFINER, so it reads profiles
\* without any policy.
has_profile_role(_user_id, _role) ==
  \E u \in Users : profiles[u] # NoRow /\ SqlEq(u, _user_id) /\ profiles[u].role = _role

\* A function without SECURITY DEFINER runs as its caller.
security_invoker == "invoker"

\* has_profile_role is declared SECURITY DEFINER: its SELECT on profiles runs
\* as the function's owner, to whom row security does not apply.
has_profile_role_security == "definer"

\* ------------------------------------------------------------ profiles policies
\* "Users can view their own profile": USING (auth.uid() = id)
UsersCanViewOwnProfile(uid, id) == SqlEq(uid, id)

\* "Admins can view all profiles": USING (has_profile_role(auth.uid(), 'admin'))
AdminsCanViewAllProfiles(uid, id) == has_profile_role(uid, "admin")

\* SELECT on profiles: the permissive policies, OR-ed.
ProfilesSelectPolicy(uid, id) ==
  UsersCanViewOwnProfile(uid, id) \/ AdminsCanViewAllProfiles(uid, id)

\* The tables the policies of profiles read as the caller, with row security
\* applied to the read: the self policies compare auth.uid() with id and read
\* none; the admin policies call has_profile_role, whose SELECT on profiles
\* is the caller's read only when the function runs as its caller.
ProfilesPolicyReads ==
  IF has_profile_role_security = "definer" THEN {} ELSE {"profiles"}

\* Row security adds the policies of profiles to a statement on profiles, and
\* to every read the policies make as the caller.  When such a read is again
\* a read of profiles its policies are entered anew, without end: the
\* statement fails with "infinite recursion detected in policy for relation
\* profiles" and evaluates no row.
ProfilesPolicyRecursion == "profiles" \in ProfilesPolicyReads

\* "Users can update their own profile": FOR UPDATE USING (auth.uid() = id);
\* no WITH CHECK, so the same expression checks the new row; no column list.
UsersCanUpdateOwnProfile(uid, id) == SqlEq(uid, id)

\* "Admins can insert profiles": WITH CHECK (has_profile_role(auth.uid(), 'admin'))
AdminsCanInsertProfiles(uid) == has_profile_role(uid, "admin")

\* EXISTS (SELECT 1 FROM profiles WHERE id = auth.uid() AND role IN roles),
\* the sub-select every other table's policy makes; it runs as the caller, so
\* it sees the profile rows the caller may read.
CallerRoleIn(uid, roles) ==
  \E u \in Users :
    /\ profiles[u] # NoRow
    /\ ProfilesSelectPolicy(uid, u)
    /\ SqlEq(u, uid)
    /\ profiles[u].role \in roles

\* The same with AND p.hospital_id = <a row's hospital column>.
CallerRoleAtHospital(uid, roles, hospital) ==
  \E u \in Users :
    /\ profiles[u] # NoRow
    /\ ProfilesSelectPolicy(uid, u)
    /\ SqlEq(u, uid)
    /\ profiles[u].role \in roles
    /\ SqlEq(profiles[u].hospital_id, hospital)

\* ------------------------------------------------------------ referrals policies
\* "Doctors can view referrals they created"
DoctorsCanViewReferralsTheyCreated(uid, r) == SqlEq(r.referring_doctor_id, uid)

\* "Specialists can view referrals assigned to them"
SpecialistsCanViewAssigned(uid, r) == SqlEq(r.target_specialist_id, uid)

\* The policy below without its hospital condition.
SpecialistsAtAnyHospitalCanView(uid, r) == CallerRoleIn(uid, {"specialist"})

\* "Specialists at target hospital can view referrals"
SpecialistsAtTargetHospitalCanView(uid, r) ==
  CallerRoleAtHospital(uid, {"specialist"}, r.target_hospital_id)

\* "Admins can view all referrals"
AdminsCanViewAllReferrals(uid, r) == CallerRoleIn(uid, {"admin"})

\* SELECT on referrals: the four permissive policies, OR-ed.
ReferralsSelectPolicy(uid, r) ==
  \/ DoctorsCanViewReferralsTheyCreated(uid, r)
  \/ SpecialistsCanViewAssigned(uid, r)
  \/ SpecialistsAtTargetHospitalCanView(uid, r)
  \/ AdminsCanViewAllReferrals(uid, r)

\* "Doctors can create referrals", the INSERT policy of the first migration,
\* dropped by the later one.
DoctorsCanCreateReferrals(uid, r) ==
  SqlEq(r.referring_doctor_id, uid) /\ CallerRoleIn(uid, {"doctor", "admin"})

\* "Medical staff can create referrals" (it replaced "Doctors can create
\* referrals"): the only INSERT policy on referrals.
MedicalStaffCanCreateReferrals(uid, r) ==
  SqlEq(r.referring_doctor_id, uid) /\ CallerRoleIn(uid, {"doctor", "specialist", "admin"})

\* The policy below without its hospital condition.
SpecialistsCanUpdateAny(uid, r) ==
  SqlEq(r.target_specialist_id, uid) \/ CallerRoleIn(uid, {"specialist"})

\* "Specialists can update assigned referrals": the only UPDATE policy on
\* referrals; USING, and with no WITH CHECK also the check of the new row.
SpecialistsCanUpdateAssignedReferrals(uid, r) ==
  \/ SqlEq(r.target_specialist_id, uid)
  \/ CallerRoleAtHospital(uid, {"specialist"}, r.target_hospital_id)

\* ------------------------------------------------------------ patients policies
\* "Doctors can view patients at their hospital": FOR SELECT
DoctorsCanViewPatientsAtTheirHospital(uid, p) ==
  \E u \in Users :
    /\ profiles[u] # NoRow
    /\ ProfilesSelectPolicy(uid, u)
    /\ SqlEq(u, uid)
    /\ profiles[u].role \in {"doctor", "specialist", "admin"}
    /\ (SqlEq(profiles[u].hospital_id, p.current_hospital_id) \/ profiles[u].role = "admin")

\* The policy below with specialists among its roles.
MedicalStaffCanManagePatients(uid, p) == CallerRoleIn(uid, {"doctor", "specialist", "admin"})

\* "Doctors can manage patients": FOR ALL, so also a SELECT policy.
DoctorsCanManagePatients(uid, p) == CallerRoleIn(uid, {"doctor", "admin"})

\* SELECT on patients: the SELECT policy and the ALL policy, OR-ed.
PatientsSelectPolicy(uid, p) ==
  DoctorsCanViewPatientsAtTheirHospital(uid, p) \/ DoctorsCanManagePatients(uid, p)

\* INSERT / UPDATE / DELETE on patients: the ALL policy alone.
PatientsWritePolicy(uid, p) == DoctorsCanManagePatients(uid, p)

\* ------------------------------------------------------------ storage
ReferralIds == {referrals[k].referral_id : k \in DOMAIN referrals}
PatientIds == {patients[k].patient_id : k \in DOMAIN patients}

\* The constraint dropped: every identifier passes.
UniqueDropped(ids, id) == TRUE

\* patient_id / referral_id TEXT UNIQUE NOT NULL: the index rejects a value a
\* committed row already holds.
UniqueOk(ids, id) == id # NullText /\ id \notin ids

\* The check dropped: the first candidate is returned.
CandidateUnchecked(ids, new_id) == TRUE

\* One pass of the WHILE loop of generate_referral_id / generate_patient_id,
\* after the candidate is built: IF NOT EXISTS (SELECT 1 FROM <table> WHERE
\* <column> = new_id) THEN done := TRUE.
CandidateFree(ids, new_id) == new_id \notin ids

\* set_referral_id_trigger / set_patient_id_trigger with their WHEN clause:
\* the generated identifier is assigned only when the row supplies none.
set_referral_id(new, generated) ==
  IF new.referral_id = NullText THEN [new EXCEPT !.referral_id = generated] ELSE new

set_patient_id(new, generated) ==
  IF new.patient_id = NullText THEN [new EXCEPT !.patient_id = generated] ELSE new

\* UPDATE ... SET <the columns of patch>: the other columns keep their values.
ApplyPatch(row, patch) ==
  [col \in DOMAIN row |-> IF col \in DOMAIN patch THEN patch[col] ELSE row[col]]

\* The toast of the handlers that update a referral's status
\* (IncomingReferrals.updateReferralStatus, SpecialistDashboard
\* .updateReferralStatus) and of DoctorAllocation.updateDoctorHospital: they
\* look at the answer's error only, "Success" when there is none.  The
\* update of useAuth.updateProfile (update_profile) names the caller's own
\* row, which the policies let it write: "Profile Updated".  useAuth.signUp
\* (sign_up) toasts "Account Created", or "Sign Up Error" with an error.
ToastOf(op, outcome) ==
  IF op \in {"update_status", "update_doctor_hospital"}
  THEN IF outcome = "ok" THEN "Success" ELSE "Error"
  ELSE IF op = "update_profile"
  THEN IF outcome = "ok" THEN "Profile Updated" ELSE "Update Error"
  ELSE IF op = "sign_up"
  THEN IF outcome = "ok" THEN "Account Created" ELSE "Sign Up Error"
  ELSE ""

\* The latest request and its response: what was asked, by whom, with which
\* columns (arg), on which row key (0: none), the outcome, and the keys of the
\* rows returned or written (for get_referral_public, the rows themselves);
\* shown is what the page that made the request then displays.
Response(op, uid, arg, key, outcome, rows) ==
  [op |-> op, caller |-> uid, arg |-> arg, key |-> key, outcome |-> outcome, rows |-> rows,
   shown |-> [toast |-> ToastOf(op, outcome), referralDetails |-> NoRow]]

NoArg == [none |-> TRUE]

NoResponse == Response("none", NULL, NoArg, 0, "ok", {})

\* ------------------------------------------------------------ referrals requests
\* INSERT INTO referrals as caller uid, run alone: the BEFORE INSERT trigger
\* (n is the draw its loop ends on), the INSERT policy, the unique index, the
\* foreign key to patients.
InsertReferral(uid, new, n) ==
  LET generated == ReferralCandidate(n)
      row == set_referral_id(new, generated)
      k == NewKey(referrals, MaxReferrals)
  IN /\ new.referral_id = NullText => CandidateFree(ReferralIds, generated)
     /\ IF ~MedicalStaffCanCreateReferrals(uid, row)
        THEN /\ last' = Response("insert_referral", uid, new, 0, "rls_violation", {})
             /\ UNCHANGED referrals
        ELSE IF ~UniqueOk(ReferralIds, row.referral_id)
        THEN /\ last' = Response("insert_referral", uid, new, 0, "unique_violation", {})
             /\ UNCHANGED referrals
        ELSE IF row.patient_id \notin DOMAIN patients
        THEN /\ last' = Response("insert_referral", uid, new, 0, "foreign_key_violation", {})
             /\ UNCHANGED referrals
        ELSE /\ Cardinality(DOMAIN referrals) < MaxReferrals
             /\ referrals' = WithRow(referrals, k, row)
             /\ last' = Response("insert_referral", uid, new, k, "ok", {k})
     /\ UNCHANGED <<profiles, hospitals, departments, doctor_hospitals, doctor_departments, patients, sessions>>

\* UPDATE referrals SET patch WHERE id = key, as caller uid.  The row is
\* written when the caller may read it and the UPDATE policy's USING holds
\* for it; no row matched is no error.  The new row must pass the same
\* expression (WITH CHECK) and the unique index.
UpdateReferral(op, uid, key, patch) ==
  LET old == referrals[key]
      new == ApplyPatch(old, patch)
      others == {referrals[j].referral_id : j \in DOMAIN referrals \ {key}}
  IN /\ key \in DOMAIN referrals
     /\ IF ~(ReferralsSelectPolicy(uid, old) /\ SpecialistsCanUpdateAssignedReferrals(uid, old))
        THEN /\ last' = Response(op, uid, patch, key, "ok", {})
             /\ UNCHANGED referrals
        ELSE IF ~SpecialistsCanUpdateAssignedReferrals(uid, new)
        THEN /\ last' = Response(op, uid, patch, key, "rls_violation", {})
             /\ UNCHANGED referrals
        ELSE IF ~UniqueOk(others, new.referral_id)
        THEN /\ last' = Response(op, uid, patch, key, "unique_violation", {})
             /\ UNCHANGED referrals
        ELSE /\ referrals' = [referrals EXCEPT ![key] = new]
             /\ last' = Response(op, uid, patch, key, "ok", {key})
     /\ UNCHANGED <<profiles, hospitals, departments, doctor_hospitals, doctor_departments, patients, sessions>>

\* SELECT ... FROM referrals as caller uid: the rows the SELECT policies pass.
SelectReferrals(uid) ==
  /\ last' = Response("select_referrals", uid, NoArg, 0, "ok",
                      {k \in DOMAIN referrals : ReferralsSelectPolicy(uid, referrals[k])})
  /\ UNCHANGED <<profiles, hospitals, departments, doctor_hospitals, doctor_departments, patients, referrals, sessions>>

\* SpecialistDashboard.updateReferralStatus: the three columns of the dialog;
\* an empty notes or date field is sent as null.
SpecialistDashboard_updateReferralStatus(uid, key, status, specialist_notes, appointment_date) ==
  UpdateReferral("update_status", uid, key,
                 [status |-> status, specialist_notes |-> specialist_notes,
                  appointment_date |-> appointment_date])

\* IncomingReferrals.updateReferralStatus: the status, and the appointment
\* date set to the time of the request when the new status is completed.
IncomingReferrals_updateReferralStatus(uid, key, newStatus) ==
  UpdateReferral("update_status", uid, key,
                 IF newStatus = "completed"
                 THEN [status |-> newStatus, appointment_date |-> "now"]
                 ELSE [status |-> newStatus])

\* ------------------------------------------------------------ the dataset
SeedPatient ==
  [patient_id |-> PatientCandidate(0), full_name |-> "pat-name",
   medical_history |-> "history-a", current_hospital_id |-> "h1"]

NoSessions == <<>>

\* The columns a client sends for a new referral of the seeded patient.
NewReferral(referring, specialist, hospital, department, supplied) ==
  [referral_id |-> supplied, status |-> "pending",
   referring_doctor_id |-> referring, target_specialist_id |-> specialist,
   origin_hospital_id |-> hospital, target_hospital_id |-> hospital,
   target_department_id |-> department, urgency |-> "medium",
   reason |-> "reason", notes |-> "notes", specialist_notes |-> NULL,
   appointment_date |-> NULL, created_at |-> "t0", patient_id |-> 1]

DepartmentOf(h) == CHOOSE d \in Departments : DepartmentRows[d].hospital_id = h

\* ------------------------------------------------------------ Spec
\* One referral under the policies of the referrals table: requests run one
\* at a time, with the dataset's profiles and one patient; a referral is
\* inserted while the table is empty, then read and updated by every caller.
Init ==
  /\ profiles = StaffProfiles
  /\ hospitals = HospitalRows
  /\ departments = DepartmentRows
  /\ doctor_hospitals = NoRows
  /\ doctor_departments = NoRows
  /\ patients = WithRow(NoRows, 1, SeedPatient)
  /\ referrals = NoRows
  /\ sessions = NoSessions
  /\ last = NoResponse

DoInsertReferral ==
  \E uid \in Callers, referring \in Users, specialist \in {NULL, "u4"},
     hospital \in Hospitals, n \in RandomDraws :
    referrals = NoRows /\
    InsertReferral(uid, NewReferral(referring, specialist, hospital,
                                    DepartmentOf(hospital), NullText), n)

\* The dialog opens on in_progress and offers in_progress, completed and
\* cancelled.
DialogStatuses == {"in_progress", "completed", "cancelled"}

DoUpdateStatus ==
  \E uid \in Callers, key \in DOMAIN referrals, status \in DialogStatuses :
    SpecialistDashboard_updateReferralStatus(uid, key, status, NULL, NULL)

DoMarkStatus ==
  \E uid \in Callers, key \in DOMAIN referrals, status \in referral_status :
    IncomingReferrals_updateReferralStatus(uid, key, status)

\* A PATCH of the referrals endpoint naming the referral_id column, which
\* referrals.Update allows.
DoUpdateIdentifier ==
  \E uid \in Callers, key \in DOMAIN referrals, n \in RandomDraws :
    UpdateReferral("update_referral", uid, key, [referral_id |-> ReferralCandidate(n)])

DoSelectReferrals == \E uid \in Callers : SelectReferrals(uid)

Next ==
  \/ DoInsertReferral
  \/ DoUpdateStatus
  \/ DoMarkStatus
  \/ DoUpdateIdentifier
  \/ DoSelectReferrals

Spec == Init /\ [][Next]_vars

\* ------------------------------------------------------------ patients requests
\* INSERT INTO patients as caller uid, run alone: the BEFORE INSERT trigger
\* (n is the draw its loop ends on), the ALL policy as the check of the new
\* row, the constraints.
InsertPatient(uid, new, n) ==
  LET generated == PatientCandidate(n)
      row == set_patient_id(new, generated)
      k == NewKey(patients, MaxPatients)
  IN /\ new.patient_id = NullText => CandidateFree(PatientIds, generated)
     /\ IF ~PatientsWritePolicy(uid, row)
        THEN /\ last' = Response("insert_patient", uid, new, 0, "rls_violation", {})
             /\ UNCHANGED patients
        ELSE IF ~UniqueOk(PatientIds, row.patient_id)
        THEN /\ last' = Response("insert_patient", uid, new, 0, "unique_violation", {})
             /\ UNCHANGED patients
        ELSE /\ Cardinality(DOMAIN patients) < MaxPatients
             /\ patients' = WithRow(patients, k, row)
             /\ last' = Response("insert_patient", uid, new, k, "ok", {k})
     /\ UNCHANGED <<profiles, hospitals, departments, doctor_hospitals, doctor_departments, referrals, sessions>>

\* UPDATE patients SET patch WHERE id = key, as caller uid.
UpdatePatient(uid, key, patch) ==
  LET old == patients[key]
      new == ApplyPatch(old, patch)
      others == {patients[j].patient_id : j \in DOMAIN patients \ {key}}
  IN /\ key \in DOMAIN patients
     /\ IF ~(PatientsSelectPolicy(uid, old) /\ PatientsWritePolicy(uid, old))
        THEN /\ last' = Response("update_patient", uid, patch, key, "ok", {})
             /\ UNCHANGED patients
        ELSE IF ~PatientsWritePolicy(uid, new)
        THEN /\ last' = Response("update_patient", uid, patch, key, "rls_violation", {})
             /\ UNCHANGED patients
        ELSE IF ~UniqueOk(others, new.patient_id)
        THEN /\ last' = Response("update_patient", uid, patch, key, "unique_violation", {})
             /\ UNCHANGED patients
        ELSE /\ patients' = [patients EXCEPT ![key] = new]
             /\ last' = Response("update_patient", uid, patch, key, "ok", {key})
     /\ UNCHANGED <<profiles, hospitals, departments, doctor_hospitals, doctor_departments, referrals, sessions>>

\* DELETE FROM patients WHERE id = key, as caller uid: the ALL policy
\* "Doctors can manage patients" is the DELETE policy; referrals.patient_id
\* REFERENCES patients(id) ON DELETE CASCADE removes the patient's referrals
\* with it, under no policy.
DeletePatient(uid, key) ==
  /\ key \in DOMAIN patients
  /\ IF PatientsSelectPolicy(uid, patients[key]) /\ PatientsWritePolicy(uid, patients[key])
     THEN /\ patients' = WithoutRows(patients, {key})
          /\ referrals' = WithoutRows(referrals,
                                      {k \in DOMAIN referrals : referrals[k].patient_id = key})
          /\ last' = Response("delete_patient", uid, NoArg, key, "ok", {key})
     ELSE /\ UNCHANGED <<patients, referrals>>
          /\ last' = Response("delete_patient", uid, NoArg, key, "ok", {})
  /\ UNCHANGED <<profiles, hospitals, departments, doctor_hospitals, doctor_departments, sessions>>

\* SELECT ... FROM patients as caller uid: the rows the SELECT and ALL
\* policies pass.
SelectPatients(uid) ==
  /\ last' = Response("select_patients", uid, NoArg, 0, "ok",
                      {k \in DOMAIN patients : PatientsSelectPolicy(uid, patients[k])})
  /\ UNCHANGED <<profiles, hospitals, departments, doctor_hospitals, doctor_departments, patients, referrals, sessions>>

\* The columns a client sends for a new patient (handleCreatePatient sends no
\* current_hospital_id, handleCreateReferral the referral's target hospital).
NewPatient(hospital, supplied) ==
  [patient_id |-> supplied, full_name |-> "pat-name", medical_history |-> "history-a",
   current_hospital_id |-> hospital]

\* ------------------------------------------------------------ SpecPatients
\* The patients table under its policies, requests run one at a time, with
\* the dataset's profiles.
InitPatients ==
  /\ profiles = StaffProfiles
  /\ hospitals = HospitalRows
  /\ departments = DepartmentRows
  /\ doctor_hospitals = NoRows
  /\ doctor_departments = NoRows
  /\ patients = NoRows
  /\ referrals = NoRows
  /\ sessions = NoSessions
  /\ last = NoResponse

DoInsertPatient ==
  \E uid \in Callers, hospital \in Hospitals \cup {NULL}, n \in RandomDraws :
    InsertPatient(uid, NewPatient(hospital, NullText), n)

DoMovePatient ==
  \E uid \in Callers, key \in DOMAIN patients, hospital \in Hospitals \cup {NULL} :
    UpdatePatient(uid, key, [current_hospital_id |-> hospital])

\* A PATCH of the patients endpoint naming the patient_id column.
DoUpdatePatientIdentifier ==
  \E uid \in Callers, key \in DOMAIN patients, n \in RandomDraws :
    UpdatePatient(uid, key, [patient_id |-> PatientCandidate(n)])

DoDeletePatient == \E uid \in Callers, key \in DOMAIN patients : DeletePatient(uid, key)

DoSelectPatients == \E uid \in Callers : SelectPatients(uid)

NextPatients ==
  \/ DoInsertPatient
  \/ DoMovePatient
  \/ DoUpdatePatientIdentifier
  \/ DoSelectPatients
  \/ DoDeletePatient

SpecPatients == InitPatients /\ [][NextPatients]_vars

\* ------------------------------------------------------------ profiles requests
\* A trigger that disregards the metadata: every new profile is a patient's.
handle_new_user_as_patient(id, meta_role) ==
  [role |-> "patient", hospital_id |-> NULL, full_name |-> NameOf(id)]

\* handle_new_user, the AFTER INSERT trigger on auth.users: the profile of a
\* new identity, its role the sign-up metadata's role, or patient without one.
handle_new_user(id, meta_role) ==
  [role |-> IF meta_role # NULL THEN meta_role ELSE "patient",
   hospital_id |-> NULL, full_name |-> NameOf(id)]

UserOrder == <<"u1", "u2", "u3", "u4", "u5", "u6">>

Identities == {u \in Users : profiles[u] # NoRow}

\* useAuth.signUp: the identity provider creates the identity and the trigger
\* its profile, in one step.  The new identity is the next unused one.  A
\* metadata role outside user_role fails the trigger's cast, and with it the
\* sign-up: no identity, no profile.
signUp(meta_role) ==
  LET id == UserOrder[Cardinality(Identities) + 1]
  IN /\ Cardinality(Identities) < MaxIdentities
     /\ Cardinality(Identities) < Len(UserOrder)
     /\ IF meta_role \in user_role \cup {NULL}
        THEN /\ profiles' = [profiles EXCEPT ![id] = handle_new_user(id, meta_role)]
             /\ last' = Response("sign_up", NULL, [role |-> meta_role], 0, "ok", {id})
        ELSE /\ UNCHANGED profiles
             /\ last' = Response("sign_up", NULL, [role |-> meta_role], 0,
                                 "invalid_text_representation", {})
     /\ UNCHANGED <<hospitals, departments, doctor_hospitals, doctor_departments, patients, referrals, sessions>>

\* UPDATE profiles SET patch WHERE id = id, as caller uid: the UPDATE policy
\* "Users can update their own profile" for the old and the new row, whatever
\* the columns.  With op update_profile it is the request of
\* useAuth.updateProfile(patch) of the signed-in user uid = id; the hook's
\* own state is followed in SpecAuth.
UpdateProfile(op, uid, id, patch) ==
  LET old == profiles[id]
      new == ApplyPatch(old, patch)
  IN /\ id \in Identities
     /\ IF ProfilesPolicyRecursion
        THEN /\ last' = Response(op, uid, patch, id, "infinite_recursion", {})
             /\ UNCHANGED profiles
        ELSE IF ~(ProfilesSelectPolicy(uid, id) /\ UsersCanUpdateOwnProfile(uid, id))
        THEN /\ last' = Response(op, uid, patch, id, "ok", {})
             /\ UNCHANGED profiles
        ELSE /\ profiles' = [profiles EXCEPT ![id] = new]
             /\ last' = Response(op, uid, patch, id, "ok", {id})
     /\ UNCHANGED <<hospitals, departments, doctor_hospitals, doctor_departments, patients, referrals, sessions>>

\* DoctorAllocation.updateDoctorHospital(doctorId, hospitalId).
updateDoctorHospital(uid, doctorId, hospitalId) ==
  UpdateProfile("update_doctor_hospital", uid, doctorId, [hospital_id |-> hospitalId])

\* INSERT INTO profiles (id, role, ...) as caller uid: the INSERT policy
\* "Admins can insert profiles", then the primary key, then the foreign key
\* id REFERENCES auth.users(id).  An identity has its profile from the
\* moment it exists (handle_new_user), so an id with no profile is the id of
\* no identity.
InsertProfile(uid, id, role) ==
  LET new == [role |-> role, hospital_id |-> NULL, full_name |-> NameOf(id)]
  IN /\ last' = Response("insert_profile", uid, new, id,
                         IF ProfilesPolicyRecursion THEN "infinite_recursion"
                         ELSE IF ~AdminsCanInsertProfiles(uid) THEN "rls_violation"
                         ELSE IF profiles[id] # NoRow THEN "unique_violation"
                         ELSE "foreign_key_violation", {})
     /\ UNCHANGED <<profiles, hospitals, departments, doctor_hospitals, doctor_departments,
                    patients, referrals, sessions>>

\* profiles has no DELETE (and no ALL) policy.
ProfilesDeletePolicy(uid, id) == FALSE

\* DELETE FROM profiles WHERE id = id, as caller uid.
DeleteProfile(uid, id) ==
  /\ id \in Identities
  /\ IF ProfilesPolicyRecursion
     THEN /\ UNCHANGED profiles
          /\ last' = Response("delete_profile", uid, NoArg, id, "infinite_recursion", {})
     ELSE IF ProfilesSelectPolicy(uid, id) /\ ProfilesDeletePolicy(uid, id)
     THEN /\ profiles' = [profiles EXCEPT ![id] = NoRow]
          /\ last' = Response("delete_profile", uid, NoArg, id, "ok", {id})
     ELSE /\ UNCHANGED profiles
          /\ last' = Response("delete_profile", uid, NoArg, id, "ok", {})
  /\ UNCHANGED <<hospitals, departments, doctor_hospitals, doctor_departments,
                 patients, referrals, sessions>>

\* SELECT ... FROM profiles as caller uid.
SelectProfiles(uid) ==
  /\ last' = IF ProfilesPolicyRecursion
             THEN Response("select_profiles", uid, NoArg, 0, "infinite_recursion", {})
             ELSE Response("select_profiles", uid, NoArg, 0, "ok",
                           {u \in Identities : ProfilesSelectPolicy(uid, u)})
  /\ UNCHANGED <<profiles, hospitals, departments, doctor_hospitals, doctor_departments, patients, referrals, sessions>>

\* ------------------------------------------------------------ SpecProfiles
\* The profiles table from the empty store: identities sign up and profiles
\* are updated and read.
InitProfiles ==
  /\ profiles = [u \in Users |-> NoRow]
  /\ hospitals = HospitalRows
  /\ departments = DepartmentRows
  /\ doctor_hospitals = NoRows
  /\ doctor_departments = NoRows
  /\ patients = NoRows
  /\ referrals = NoRows
  /\ sessions = NoSessions
  /\ last = NoResponse

DoSignUp == \E meta_role \in user_role \cup {NULL, "nurse"} : signUp(meta_role)

DoUpdateOwnRole ==
  \E uid \in Identities, role \in user_role :
    UpdateProfile("update_profile", uid, uid, [role |-> role])

DoUpdateOwnHospital ==
  \E uid \in Identities, h \in Hospitals \cup {NULL} :
    UpdateProfile("update_profile", uid, uid, [hospital_id |-> h])

DoAllocateDoctor ==
  \E uid \in Identities \cup {NULL}, id \in Identities, h \in Hospitals \cup {NULL} :
    updateDoctorHospital(uid, id, h)

DoSelectProfiles == \E uid \in Identities \cup {NULL} : SelectProfiles(uid)

DoInsertProfile ==
  \E uid \in Identities \cup {NULL}, id \in Users, role \in {"admin", "doctor"} :
    InsertProfile(uid, id, role)

DoDeleteProfile == \E uid \in Identities \cup {NULL}, id \in Identities : DeleteProfile(uid, id)

NextProfiles ==
  \/ DoSignUp
  \/ DoUpdateOwnRole
  \/ DoUpdateOwnHospital
  \/ DoAllocateDoctor
  \/ DoSelectProfiles
  \/ DoInsertProfile
  \/ DoDeleteProfile

SpecProfiles == InitProfiles /\ [][NextProfiles]_vars

\* ------------------------------------------------------------ public read gateway
\* A column list that selects r.specialist_notes where the function selects
\* r.notes.
ProjectionWithNotes(r, p, d, s, oh, th, td) ==
  [referral_id |-> r.referral_id,
   status |-> r.status,
   urgency |-> r.urgency,
   reason |-> r.reason,
   notes |-> r.specialist_notes,
   appointment_date |-> r.appointment_date,
   created_at |-> r.created_at,
   patient_full_name |-> p.full_name,
   patient_id |-> p.patient_id,
   referring_doctor_name |-> IF d = NoRow THEN NULL ELSE d.full_name,
   target_specialist_name |-> IF s = NoRow THEN NULL ELSE s.full_name,
   origin_hospital_name |-> oh.name,
   origin_hospital_city |-> oh.city,
   origin_hospital_state |-> oh.state,
   target_hospital_name |-> th.name,
   target_hospital_city |-> th.city,
   target_hospital_state |-> th.state,
   target_department_name |-> td.name,
   target_department_description |-> td.description]

\* The SELECT list of get_referral_public for one joined row: r the referral,
\* p its patient, d and s the profiles of the referring doctor and the target
\* specialist (NoRow when the LEFT JOIN finds none), oh, th the hospitals, td
\* the department.
Projection(r, p, d, s, oh, th, td) ==
  [referral_id |-> r.referral_id,
   status |-> r.status,
   urgency |-> r.urgency,
   reason |-> r.reason,
   notes |-> r.notes,
   appointment_date |-> r.appointment_date,
   created_at |-> r.created_at,
   patient_full_name |-> p.full_name,
   patient_id |-> p.patient_id,
   referring_doctor_name |-> IF d = NoRow THEN NULL ELSE d.full_name,
   target_specialist_name |-> IF s = NoRow THEN NULL ELSE s.full_name,
   origin_hospital_name |-> oh.name,
   origin_hospital_city |-> oh.city,
   origin_hospital_state |-> oh.state,
   target_hospital_name |-> th.name,
   target_hospital_city |-> th.city,
   target_hospital_state |-> th.state,
   target_department_name |-> td.name,
   target_department_description |-> td.description]

\* LEFT JOIN profiles x ON x.id = <a referral's profile column>.
LeftJoinProfile(profs, id) == IF id \in DOMAIN profs THEN profs[id] ELSE NoRow

\* get_referral_public(_referral_id) over the tables given: SECURITY DEFINER,
\* so no policy applies and the caller plays no part.  The rows of referrals
\* whose referral_id is UPPER(_referral_id) and whose inner joins find their
\* rows; LIMIT 1.  The result is a sequence of zero or one projected rows.
get_referral_public(refs, pats, profs, hosps, depts, _referral_id) ==
  LET matching == {k \in DOMAIN refs :
                     /\ refs[k].referral_id = UPPER(_referral_id)
                     /\ refs[k].patient_id \in DOMAIN pats
                     /\ refs[k].origin_hospital_id \in DOMAIN hosps
                     /\ refs[k].target_hospital_id \in DOMAIN hosps
                     /\ refs[k].target_department_id \in DOMAIN depts}
  IN IF matching = {} THEN <<>>
     ELSE LET r == refs[CHOOSE k \in matching : TRUE]
          IN <<Projection(r, pats[r.patient_id],
                          LeftJoinProfile(profs, r.referring_doctor_id),
                          LeftJoinProfile(profs, r.target_specialist_id),
                          hosps[r.origin_hospital_id], hosps[r.target_hospital_id],
                          depts[r.target_department_id])>>

\* TrackReferral.searchReferral's mapping of the row the function returned to
\* the page's ReferralDetails: specialist_notes and the specializations are
\* set to null.
MapReferralDetails(referralData) ==
  [referral_id |-> referralData.referral_id,
   status |-> referralData.status,
   urgency |-> referralData.urgency,
   reason |-> referralData.reason,
   notes |-> referralData.notes,
   specialist_notes |-> NULL,
   appointment_date |-> referralData.appointment_date,
   created_at |-> referralData.created_at,
   patient |-> [patient_id |-> referralData.patient_id,
                full_name |-> referralData.patient_full_name],
   referring_doctor |-> [full_name |-> referralData.referring_doctor_name,
                         specialization |-> NULL],
   target_specialist |-> IF referralData.target_specialist_name # NULL
                         THEN [full_name |-> referralData.target_specialist_name,
                               specialization |-> NULL]
                         ELSE [none |-> NULL],
   origin_hospital |-> [name |-> referralData.origin_hospital_name,
                        city |-> referralData.origin_hospital_city,
                        state |-> referralData.origin_hospital_state],
   target_hospital |-> [name |-> referralData.target_hospital_name,
                        city |-> referralData.target_hospital_city,
                        state |-> referralData.target_hospital_state],
   target_department |-> [name |-> referralData.target_department_name,
                          description |-> referralData.target_department_description]]

\* TrackReferral.searchReferral(idToSearch) by any visitor, signed in or not:
\* the rpc call and what the page shows for its answer.  The profiles the
\* function joins are all the profile rows.
searchReferral(uid, searchId) ==
  LET data == get_referral_public(referrals, patients,
                                  [u \in Identities |-> profiles[u]],
                                  hospitals, departments, searchId)
  IN /\ Len(searchId) > 0
     /\ last' = [Response("get_referral_public", uid, searchId, 0, "ok", data)
                   EXCEPT !.shown =
                     IF Len(data) = 0
                     THEN [toast |-> "Referral Not Found", referralDetails |-> NoRow]
                     ELSE [toast |-> "", referralDetails |-> MapReferralDetails(data[1])]]
     /\ UNCHANGED <<profiles, hospitals, departments, doctor_hospitals, doctor_departments, patients, referrals, sessions>>

\* ------------------------------------------------------------ SpecPublic
\* The public tracking page over referrals with generated and with
\* caller-supplied identifiers, some of them given specialist notes.
SuppliedIds == {<<"r", "-", "1">>, <<"R", "-", "1">>}

\* The positions of s that hold a letter.
LetterPositions(s) == {i \in DOMAIN s : UpperChar(s[i]) # LowerChar(s[i])}

\* Every upper/lower-case spelling of s.
Spellings(s) ==
  {[i \in DOMAIN s |-> IF i \in low THEN LowerChar(s[i]) ELSE UpperChar(s[i])] :
     low \in SUBSET LetterPositions(s)}

\* The identifiers a visitor types: every spelling of every identifier a row
\* could hold, stored at the moment or not.
TrackInputs ==
  UNION {Spellings(id) : id \in SuppliedIds \cup {ReferralCandidate(n) : n \in RandomDraws}}

InitPublic == Init

DoCreateTracked ==
  \E supplied \in SuppliedIds \cup {NullText}, n \in RandomDraws :
    InsertReferral("u2", NewReferral("u2", "u4", "h1", "d1", supplied), n)

DoTriage ==
  \E key \in DOMAIN referrals :
    SpecialistDashboard_updateReferralStatus("u4", key, "in_progress", "secret", NULL)

\* A visitor without a session and a signed-in patient.
TrackCallers == {NULL, "u6"}

DoTrack == \E uid \in TrackCallers, searchId \in TrackInputs : searchReferral(uid, searchId)

NextPublic ==
  \/ DoCreateTracked
  \/ DoTriage
  \/ DoTrack

SpecPublic == InitPublic /\ [][NextPublic]_vars

\* ------------------------------------------------------------ concurrent inserts
\* A session is one INSERT request in flight: idle, then in the BEFORE INSERT
\* trigger's generator loop (pc "generate"), then at the INSERT itself with
\* its row complete (pc "insert"), then answered (pc "done").  Each step of a
\* session reads the rows committed so far (READ COMMITTED); the INSERT with
\* its index check and commit is one step.
IdleSession ==
  [pc |-> "idle", table |-> "none", supplied |-> NullText, id |-> NullText, outcome |-> "none"]

\* The request arrives.  The trigger's WHEN (NEW.<id> IS NULL) sends a row
\* without identifier through the generator, and a row with one past it.
BeginInsert(i, table, supplied) ==
  /\ sessions[i].pc = "idle"
  /\ table = "referrals" => DOMAIN patients # {}
  /\ sessions' = [sessions EXCEPT ![i] =
                    [pc |-> IF supplied = NullText THEN "generate" ELSE "insert",
                     table |-> table, supplied |-> supplied, id |-> supplied,
                     outcome |-> "none"]]
  /\ UNCHANGED <<profiles, hospitals, departments, doctor_hospitals, doctor_departments, patients, referrals, last>>

\* generate_referral_id: one pass of its loop with draw n; the function
\* returns the candidate when no committed row holds it.
generate_referral_id(i, n) ==
  /\ sessions[i].pc = "generate"
  /\ sessions[i].table = "referrals"
  /\ IF CandidateFree(ReferralIds, ReferralCandidate(n))
     THEN sessions' = [sessions EXCEPT ![i].pc = "insert", ![i].id = ReferralCandidate(n)]
     ELSE UNCHANGED sessions
  /\ UNCHANGED <<profiles, hospitals, departments, doctor_hospitals, doctor_departments, patients, referrals, last>>

\* generate_patient_id: the same over patients.
generate_patient_id(i, n) ==
  /\ sessions[i].pc = "generate"
  /\ sessions[i].table = "patients"
  /\ IF CandidateFree(PatientIds, PatientCandidate(n))
     THEN sessions' = [sessions EXCEPT ![i].pc = "insert", ![i].id = PatientCandidate(n)]
     ELSE UNCHANGED sessions
  /\ UNCHANGED <<profiles, hospitals, departments, doctor_hospitals, doctor_departments, patients, referrals, last>>

FirstKey(table) == CHOOSE k \in DOMAIN table : \A j \in DOMAIN table : k <= j

\* The INSERT of a session's referral row, by doctor u2 for the first
\* patient: the INSERT policy, then the unique index on referral_id.  Nothing
\* catches the index's error: it is the request's answer.
CommitReferral(i) ==
  LET row == [NewReferral("u2", "u4", "h1", "d1", sessions[i].id)
                EXCEPT !.patient_id = FirstKey(patients)]
      k == NewKey(referrals, MaxReferrals)
  IN /\ sessions[i].pc = "insert"
     /\ sessions[i].table = "referrals"
     /\ IF ~MedicalStaffCanCreateReferrals("u2", row)
        THEN /\ sessions' = [sessions EXCEPT ![i].pc = "done", ![i].outcome = "rls_violation"]
             /\ UNCHANGED referrals
        ELSE IF ~UniqueOk(ReferralIds, row.referral_id)
        THEN /\ sessions' = [sessions EXCEPT ![i].pc = "done", ![i].outcome = "unique_violation"]
             /\ UNCHANGED referrals
        ELSE /\ Cardinality(DOMAIN referrals) < MaxReferrals
             /\ referrals' = WithRow(referrals, k, row)
             /\ sessions' = [sessions EXCEPT ![i].pc = "done", ![i].outcome = "ok"]
     /\ UNCHANGED <<profiles, hospitals, departments, doctor_hospitals, doctor_departments, patients, last>>

\* The INSERT of a session's patient row, by doctor u2.
CommitPatient(i) ==
  LET row == NewPatient("h1", sessions[i].id)
      k == NewKey(patients, MaxPatients)
  IN /\ sessions[i].pc = "insert"
     /\ sessions[i].table = "patients"
     /\ IF ~PatientsWritePolicy("u2", row)
        THEN /\ sessions' = [sessions EXCEPT ![i].pc = "done", ![i].outcome = "rls_violation"]
             /\ UNCHANGED patients
        ELSE IF ~UniqueOk(PatientIds, row.patient_id)
        THEN /\ sessions' = [sessions EXCEPT ![i].pc = "done", ![i].outcome = "unique_violation"]
             /\ UNCHANGED patients
        ELSE /\ Cardinality(DOMAIN patients) < MaxPatients
             /\ patients' = WithRow(patients, k, row)
             /\ sessions' = [sessions EXCEPT ![i].pc = "done", ![i].outcome = "ok"]
     /\ UNCHANGED <<profiles, hospitals, departments, doctor_hospitals, doctor_departments, referrals, last>>

\* ------------------------------------------------------------ SpecIdGen
\* Concurrent inserts into patients and referrals, one per session, with and
\* without a caller-supplied identifier, interleaved with updates of the
\* identifier columns.  One patient is stored at the start.
MaxSessions == 2

InitIdGen ==
  /\ profiles = StaffProfiles
  /\ hospitals = HospitalRows
  /\ departments = DepartmentRows
  /\ doctor_hospitals = NoRows
  /\ doctor_departments = NoRows
  /\ patients = WithRow(NoRows, 1, SeedPatient)
  /\ referrals = NoRows
  /\ sessions = [i \in 1..MaxSessions |-> IdleSession]
  /\ last = NoResponse

DoBeginReferral ==
  \E i \in DOMAIN sessions, supplied \in {NullText, ReferralCandidate(0)} :
    BeginInsert(i, "referrals", supplied)

DoBeginPatient ==
  \E i \in DOMAIN sessions, supplied \in {NullText, PatientCandidate(0)} :
    BeginInsert(i, "patients", supplied)

DoGenerateReferralId == \E i \in DOMAIN sessions, n \in RandomDraws : generate_referral_id(i, n)

DoGeneratePatientId == \E i \in DOMAIN sessions, n \in RandomDraws : generate_patient_id(i, n)

DoCommitReferral == \E i \in DOMAIN sessions : CommitReferral(i)

DoCommitPatient == \E i \in DOMAIN sessions : CommitPatient(i)

DoRenumberReferral ==
  \E key \in DOMAIN referrals, n \in RandomDraws :
    UpdateReferral("update_referral", "u4", key, [referral_id |-> ReferralCandidate(n)])

DoRenumberPatient ==
  \E key \in DOMAIN patients, n \in RandomDraws :
    UpdatePatient("u2", key, [patient_id |-> PatientCandidate(n)])

NextIdGen ==
  \/ DoBeginReferral
  \/ DoBeginPatient
  \/ DoGenerateReferralId
  \/ DoGeneratePatientId
  \/ DoCommitReferral
  \/ DoCommitPatient
  \/ DoRenumberReferral
  \/ DoRenumberPatient

SpecIdGen == InitIdGen /\ [][NextIdGen]_vars

\* ------------------------------------------------------------ deletes
\* referrals has no DELETE (and no ALL) policy: with row level security
\* enabled, no row passes for any caller.
ReferralsDeletePolicy(uid, r) == FALSE

\* DELETE FROM referrals WHERE id = key, as caller uid: no row matched is no
\* error.
DeleteReferral(uid, key) ==
  /\ key \in DOMAIN referrals
  /\ IF ReferralsSelectPolicy(uid, referrals[key]) /\ ReferralsDeletePolicy(uid, referrals[key])
     THEN /\ referrals' = WithoutRows(referrals, {key})
          /\ last' = Response("delete_referral", uid, NoArg, key, "ok", {key})
     ELSE /\ UNCHANGED referrals
          /\ last' = Response("delete_referral", uid, NoArg, key, "ok", {})
  /\ UNCHANGED <<profiles, hospitals, departments, doctor_hospitals, doctor_departments,
                 patients, sessions>>

\* ------------------------------------------------------------ SpecDeletes
\* Referrals of the seeded patient are created and cancelled, and every
\* caller sends DELETE requests for referrals and for patients.
InitDeletes == Init

DoRefer ==
  \E uid \in {"u2", "u3"}, n \in RandomDraws :
    InsertReferral(uid, NewReferral(uid, "u4", "h1", "d1", NullText), n)

DoCancel ==
  \E key \in DOMAIN referrals : IncomingReferrals_updateReferralStatus("u4", key, "cancelled")

DoDeleteReferral == \E uid \in Callers, key \in DOMAIN referrals : DeleteReferral(uid, key)

NextDeletes ==
  \/ DoRefer
  \/ DoCancel
  \/ DoDeleteReferral
  \/ DoDeletePatient

SpecDeletes == InitDeletes /\ [][NextDeletes]_vars

\* ------------------------------------------------------------ hospitals and departments policies
\* "All authenticated users can view hospitals": FOR SELECT TO authenticated
\* USING (true); a request without a session runs as anon.
AllAuthenticatedUsersCanViewHospitals(uid) == uid # NULL

\* "Admins can manage hospitals": FOR ALL.
AdminsCanManageHospitals(uid) == CallerRoleIn(uid, {"admin"})

HospitalsSelectPolicy(uid) ==
  AllAuthenticatedUsersCanViewHospitals(uid) \/ AdminsCanManageHospitals(uid)

\* "All authenticated users can view departments": FOR SELECT TO
\* authenticated USING (true).
AllAuthenticatedUsersCanViewDepartments(uid) == uid # NULL

\* "Admins can manage departments", the ALL policy of the first migration,
\* dropped by the later one.
AdminsCanManageDepartments(uid) == CallerRoleIn(uid, {"admin"})

\* "Medical staff can manage departments": FOR ALL, the policy in force.
MedicalStaffCanManageDepartments(uid) == CallerRoleIn(uid, {"doctor", "admin"})

DepartmentsSelectPolicy(uid) ==
  AllAuthenticatedUsersCanViewDepartments(uid) \/ MedicalStaffCanManageDepartments(uid)

\* ------------------------------------------------------------ hospitals and departments requests
SelectHospitals(uid) ==
  /\ last' = Response("select_hospitals", uid, NoArg, 0, "ok",
                      {h \in DOMAIN hospitals : HospitalsSelectPolicy(uid)})
  /\ UNCHANGED <<profiles, hospitals, departments, doctor_hospitals, doctor_departments,
                 patients, referrals, sessions>>

SelectDepartments(uid) ==
  /\ last' = Response("select_departments", uid, NoArg, 0, "ok",
                      {d \in DOMAIN departments : DepartmentsSelectPolicy(uid)})
  /\ UNCHANGED <<profiles, hospitals, departments, doctor_hospitals, doctor_departments,
                 patients, referrals, sessions>>

\* INSERT INTO hospitals as caller uid; key is the new row's id.
InsertHospital(uid, key, row) ==
  /\ IF ~AdminsCanManageHospitals(uid)
     THEN /\ last' = Response("insert_hospital", uid, row, 0, "rls_violation", {})
          /\ UNCHANGED hospitals
     ELSE /\ key \notin DOMAIN hospitals
          /\ hospitals' = WithRow(hospitals, key, row)
          /\ last' = Response("insert_hospital", uid, row, key, "ok", {key})
  /\ UNCHANGED <<profiles, departments, doctor_hospitals, doctor_departments,
                 patients, referrals, sessions>>

\* UPDATE hospitals SET patch WHERE id = key, as caller uid.
UpdateHospital(uid, key, patch) ==
  /\ key \in DOMAIN hospitals
  /\ IF HospitalsSelectPolicy(uid) /\ AdminsCanManageHospitals(uid)
     THEN /\ hospitals' = [hospitals EXCEPT ![key] = ApplyPatch(hospitals[key], patch)]
          /\ last' = Response("update_hospital", uid, patch, key, "ok", {key})
     ELSE /\ UNCHANGED hospitals
          /\ last' = Response("update_hospital", uid, patch, key, "ok", {})
  /\ UNCHANGED <<profiles, departments, doctor_hospitals, doctor_departments,
                 patients, referrals, sessions>>

\* The keys of the rows of doctor_hospitals that name hospital h, and of the
\* rows of doctor_departments that name it or a department of ds.
HospitalAssignmentsOf(h) == {k \in DOMAIN doctor_hospitals : doctor_hospitals[k].hospital_id = h}

DepartmentAssignmentsOf(h, ds) ==
  {k \in DOMAIN doctor_departments :
     doctor_departments[k].hospital_id = h \/ doctor_departments[k].department_id \in ds}

\* DELETE FROM hospitals WHERE id = key, as caller uid.  A profile
\* (fk_profiles_hospital), a patient or a referral that names the hospital
\* holds it (no ON DELETE action); its departments and the assignments to it
\* go with it (ON DELETE CASCADE).  profiles.department_id is null in every
\* profile of the model, so no profile holds a department.
DeleteHospital(uid, key) ==
  LET ds == {d \in DOMAIN departments : departments[d].hospital_id = key}
      held == \/ \E u \in DOMAIN profiles :
                   profiles[u] # NoRow /\ profiles[u].hospital_id = key
              \/ \E k \in DOMAIN patients : patients[k].current_hospital_id = key
              \/ \E k \in DOMAIN referrals :
                   \/ key \in {referrals[k].origin_hospital_id, referrals[k].target_hospital_id}
                   \/ referrals[k].target_department_id \in ds
  IN /\ key \in DOMAIN hospitals
     /\ IF ~(HospitalsSelectPolicy(uid) /\ AdminsCanManageHospitals(uid))
        THEN /\ last' = Response("delete_hospital", uid, NoArg, key, "ok", {})
             /\ UNCHANGED <<hospitals, departments, doctor_hospitals, doctor_departments>>
        ELSE IF held
        THEN /\ last' = Response("delete_hospital", uid, NoArg, key, "foreign_key_violation", {})
             /\ UNCHANGED <<hospitals, departments, doctor_hospitals, doctor_departments>>
        ELSE /\ hospitals' = WithoutRows(hospitals, {key})
             /\ departments' = WithoutRows(departments, ds)
             /\ doctor_hospitals' = WithoutRows(doctor_hospitals, HospitalAssignmentsOf(key))
             /\ doctor_departments' = WithoutRows(doctor_departments, DepartmentAssignmentsOf(key, ds))
             /\ last' = Response("delete_hospital", uid, NoArg, key, "ok", {key})
     /\ UNCHANGED <<profiles, patients, referrals, sessions>>

\* INSERT INTO departments as caller uid; key is the new row's id.
InsertDepartment(uid, key, row) ==
  /\ IF ~MedicalStaffCanManageDepartments(uid)
     THEN /\ last' = Response("insert_department", uid, row, 0, "rls_violation", {})
          /\ UNCHANGED departments
     ELSE IF row.hospital_id \notin DOMAIN hospitals
     THEN /\ last' = Response("insert_department", uid, row, 0, "foreign_key_violation", {})
          /\ UNCHANGED departments
     ELSE /\ key \notin DOMAIN departments
          /\ departments' = WithRow(departments, key, row)
          /\ last' = Response("insert_department", uid, row, key, "ok", {key})
  /\ UNCHANGED <<profiles, hospitals, doctor_hospitals, doctor_departments,
                 patients, referrals, sessions>>

\* UPDATE departments SET patch WHERE id = key, as caller uid.
UpdateDepartment(uid, key, patch) ==
  /\ key \in DOMAIN departments
  /\ IF DepartmentsSelectPolicy(uid) /\ MedicalStaffCanManageDepartments(uid)
     THEN /\ departments' = [departments EXCEPT ![key] = ApplyPatch(departments[key], patch)]
          /\ last' = Response("update_department", uid, patch, key, "ok", {key})
     ELSE /\ UNCHANGED departments
          /\ last' = Response("update_department", uid, patch, key, "ok", {})
  /\ UNCHANGED <<profiles, hospitals, doctor_hospitals, doctor_departments,
                 patients, referrals, sessions>>

\* DELETE FROM departments WHERE id = key, as caller uid.  A referral that
\* names the department holds it; the assignments to it go with it.
DeleteDepartment(uid, key) ==
  /\ key \in DOMAIN departments
  /\ IF ~(DepartmentsSelectPolicy(uid) /\ MedicalStaffCanManageDepartments(uid))
     THEN /\ last' = Response("delete_department", uid, NoArg, key, "ok", {})
          /\ UNCHANGED <<departments, doctor_departments>>
     ELSE IF \E k \in DOMAIN referrals : referrals[k].target_department_id = key
     THEN /\ last' = Response("delete_department", uid, NoArg, key, "foreign_key_violation", {})
          /\ UNCHANGED <<departments, doctor_departments>>
     ELSE /\ departments' = WithoutRows(departments, {key})
          /\ doctor_departments' = WithoutRows(doctor_departments, DepartmentAssignmentsOf(NULL, {key}))
          /\ last' = Response("delete_department", uid, NoArg, key, "ok", {key})
  /\ UNCHANGED <<profiles, hospitals, doctor_hospitals, patients, referrals, sessions>>

\* ------------------------------------------------------------ SpecDirectory
\* The profiles before an admin allocated a hospital to any of them.
UnallocatedProfiles == [u \in Users |-> [StaffProfiles[u] EXCEPT !.hospital_id = NULL]]

\* The hospitals and departments tables under their policies, with no
\* patient and with the dataset's profiles, allocated to their hospitals or
\* not yet: every caller reads, inserts, updates and deletes.
InitDirectory ==
  /\ profiles \in {StaffProfiles, UnallocatedProfiles}
  /\ hospitals = HospitalRows
  /\ departments = DepartmentRows
  /\ doctor_hospitals = NoRows
  /\ doctor_departments = NoRows
  /\ patients = NoRows
  /\ referrals = NoRows
  /\ sessions = NoSessions
  /\ last = NoResponse

DoSelectHospitals == \E uid \in Callers : SelectHospitals(uid)

DoSelectDepartments == \E uid \in Callers : SelectDepartments(uid)

DoInsertHospital ==
  \E uid \in Callers, key \in Hospitals : InsertHospital(uid, key, HospitalRows[key])

DoUpdateHospital ==
  \E uid \in Callers, key \in DOMAIN hospitals : UpdateHospital(uid, key, [phone |-> "phone-x"])

DoDeleteHospital == \E uid \in Callers, key \in DOMAIN hospitals : DeleteHospital(uid, key)

DoInsertDepartment ==
  \E uid \in Callers, key \in Departments : InsertDepartment(uid, key, DepartmentRows[key])

DoUpdateDepartment ==
  \E uid \in Callers, key \in DOMAIN departments :
    UpdateDepartment(uid, key, [description |-> "descr-x"])

DoDeleteDepartment == \E uid \in Callers, key \in DOMAIN departments : DeleteDepartment(uid, key)

NextDirectory ==
  \/ DoSelectHospitals
  \/ DoSelectDepartments
  \/ DoInsertHospital
  \/ DoUpdateHospital
  \/ DoDeleteHospital
  \/ DoInsertDepartment
  \/ DoUpdateDepartment
  \/ DoDeleteDepartment

SpecDirectory == InitDirectory /\ [][NextDirectory]_vars

\* ------------------------------------------------------------ doctor_hospitals and doctor_departments
\* The two junction tables have the same policies and the same shape of
\* constraint; t names the table.
AssignmentTables == {"doctor_hospitals", "doctor_departments"}

AssignmentsOf(t) == IF t = "doctor_hospitals" THEN doctor_hospitals ELSE doctor_departments

\* UNIQUE(doctor_id, hospital_id) / UNIQUE(doctor_id, department_id, hospital_id):
\* the columns of the constraint.
UniqueColumns(t, row) ==
  IF t = "doctor_hospitals"
  THEN <<row.doctor_id, row.hospital_id>>
  ELSE <<row.doctor_id, row.department_id, row.hospital_id>>

\* The foreign keys of a junction row find their rows.
AssignmentReferencesExist(t, row) ==
  /\ row.doctor_id \in Identities
  /\ row.hospital_id \in DOMAIN hospitals
  /\ t = "doctor_departments" => row.department_id \in DOMAIN departments

\* "Doctors can view their own hospital assignments" / "... department
\* assignments": USING (auth.uid() = doctor_id)
DoctorsCanViewTheirOwnAssignments(uid, row) == SqlEq(uid, row.doctor_id)

\* A policy that lets doctors manage the assignments too.
StaffCanManageAllAssignments(uid) ==
  has_profile_role(uid, "admin") \/ has_profile_role(uid, "doctor")

\* "Admins can manage all doctor hospital assignments" / "... department
\* assignments": FOR ALL USING (has_profile_role(auth.uid(), 'admin'))
AdminsCanManageAllAssignments(uid) == has_profile_role(uid, "admin")

AssignmentsSelectPolicy(uid, row) ==
  DoctorsCanViewTheirOwnAssignments(uid, row) \/ AdminsCanManageAllAssignments(uid)

\* The step's effect on the junction tables: table t becomes new.
SetAssignments(t, new) ==
  IF t = "doctor_hospitals"
  THEN doctor_hospitals' = new /\ UNCHANGED doctor_departments
  ELSE doctor_departments' = new /\ UNCHANGED doctor_hospitals

SelectAssignments(t, uid) ==
  /\ last' = Response("select_assignments", uid, [table |-> t], 0, "ok",
                      {k \in DOMAIN AssignmentsOf(t) :
                         AssignmentsSelectPolicy(uid, AssignmentsOf(t)[k])})
  /\ UNCHANGED <<profiles, hospitals, departments, doctor_hospitals, doctor_departments,
                 patients, referrals, sessions>>

\* INSERT INTO <t> as caller uid: the ALL policy, the unique constraint, the
\* foreign keys.
InsertAssignment(t, uid, row) ==
  LET table == AssignmentsOf(t)
      taken == {UniqueColumns(t, table[k]) : k \in DOMAIN table}
      arg == [table |-> t, row |-> row]
  IN /\ IF ~AdminsCanManageAllAssignments(uid)
        THEN /\ last' = Response("insert_assignment", uid, arg, 0, "rls_violation", {})
             /\ UNCHANGED <<doctor_hospitals, doctor_departments>>
        ELSE IF UniqueColumns(t, row) \in taken
        THEN /\ last' = Response("insert_assignment", uid, arg, 0, "unique_violation", {})
             /\ UNCHANGED <<doctor_hospitals, doctor_departments>>
        ELSE IF ~AssignmentReferencesExist(t, row)
        THEN /\ last' = Response("insert_assignment", uid, arg, 0, "foreign_key_violation", {})
             /\ UNCHANGED <<doctor_hospitals, doctor_departments>>
        ELSE /\ Cardinality(DOMAIN doctor_hospitals) + Cardinality(DOMAIN doctor_departments)
                  < MaxAssignments
             /\ SetAssignments(t, WithRow(table, NewKey(table, MaxAssignments), row))
             /\ last' = Response("insert_assignment", uid, arg,
                                 NewKey(table, MaxAssignments), "ok",
                                 {NewKey(table, MaxAssignments)})
     /\ UNCHANGED <<profiles, hospitals, departments, patients, referrals, sessions>>

\* UPDATE <t> SET patch WHERE id = key, as caller uid.
UpdateAssignment(t, uid, key, patch) ==
  LET table == AssignmentsOf(t)
      new == ApplyPatch(table[key], patch)
      taken == {UniqueColumns(t, table[k]) : k \in DOMAIN table \ {key}}
      arg == [table |-> t, patch |-> patch]
  IN /\ key \in DOMAIN table
     /\ IF ~(AssignmentsSelectPolicy(uid, table[key]) /\ AdminsCanManageAllAssignments(uid))
        THEN /\ last' = Response("update_assignment", uid, arg, key, "ok", {})
             /\ UNCHANGED <<doctor_hospitals, doctor_departments>>
        ELSE IF UniqueColumns(t, new) \in taken
        THEN /\ last' = Response("update_assignment", uid, arg, key, "unique_violation", {})
             /\ UNCHANGED <<doctor_hospitals, doctor_departments>>
        ELSE IF ~AssignmentReferencesExist(t, new)
        THEN /\ last' = Response("update_assignment", uid, arg, key, "foreign_key_violation", {})
             /\ UNCHANGED <<doctor_hospitals, doctor_departments>>
        ELSE /\ SetAssignments(t, [table EXCEPT ![key] = new])
             /\ last' = Response("update_assignment", uid, arg, key, "ok", {key})
     /\ UNCHANGED <<profiles, hospitals, departments, patients, referrals, sessions>>

\* DELETE FROM <t> WHERE id = key, as caller uid.
DeleteAssignment(t, uid, key) ==
  LET table == AssignmentsOf(t)
      arg == [table |-> t]
  IN /\ key \in DOMAIN table
     /\ IF AssignmentsSelectPolicy(uid, table[key]) /\ AdminsCanManageAllAssignments(uid)
        THEN /\ SetAssignments(t, WithoutRows(table, {key}))
             /\ last' = Response("delete_assignment", uid, arg, key, "ok", {key})
        ELSE /\ UNCHANGED <<doctor_hospitals, doctor_departments>>
             /\ last' = Response("delete_assignment", uid, arg, key, "ok", {})
     /\ UNCHANGED <<profiles, hospitals, departments, patients, referrals, sessions>>

\* ------------------------------------------------------------ SpecAssignments
\* The junction tables under their policies, with the dataset's profiles:
\* an admin, two doctors, a specialist and a caller without a session read
\* and write assignments of the two doctors.
AssignmentCallers == {NULL, "u1", "u2", "u3", "u4"}

AssignedDoctors == {"u2", "u3"}

\* The columns of a new row of table t.
NewAssignment(t, doctor, department) ==
  IF t = "doctor_hospitals"
  THEN [doctor_id |-> doctor, hospital_id |-> DepartmentRows[department].hospital_id]
  ELSE [doctor_id |-> doctor, department_id |-> department,
        hospital_id |-> DepartmentRows[department].hospital_id]

InitAssignments == InitPatients

DoSelectAssignments ==
  \E t \in AssignmentTables, uid \in AssignmentCallers : SelectAssignments(t, uid)

DoInsertAssignment ==
  \E t \in AssignmentTables, uid \in AssignmentCallers,
     doctor \in AssignedDoctors, department \in Departments :
    InsertAssignment(t, uid, NewAssignment(t, doctor, department))

DoUpdateAssignment ==
  \E t \in AssignmentTables, uid \in AssignmentCallers, doctor \in AssignedDoctors :
    \E key \in DOMAIN AssignmentsOf(t) : UpdateAssignment(t, uid, key, [doctor_id |-> doctor])

DoDeleteAssignment ==
  \E t \in AssignmentTables, uid \in AssignmentCallers :
    \E key \in DOMAIN AssignmentsOf(t) : DeleteAssignment(t, uid, key)

NextAssignments ==
  \/ DoSelectAssignments
  \/ DoInsertAssignment
  \/ DoUpdateAssignment
  \/ DoDeleteAssignment

SpecAssignments == InitAssignments /\ [][NextAssignments]_vars

\* ------------------------------------------------------------ SpecFormat
\* One INSERT through the BEFORE INSERT trigger of an empty table, for the
\* draws of the random source where the number of digits changes and for
\* rows with and without an identifier of their own.  The session holds the
\* request and, once the trigger has run, the identifier of the row.
FormatDraws ==
  RandomDraws \cup
  {n \in {0, 9, 10, 99, 100, 999, 1000, 9999, 10000, 99999, 100000, RandomScale - 1} :
     n < RandomScale}

FormatSupplied == SuppliedIds \cup {NullText}

InitFormat ==
  /\ profiles = StaffProfiles
  /\ hospitals = HospitalRows
  /\ departments = DepartmentRows
  /\ doctor_hospitals = NoRows
  /\ doctor_departments = NoRows
  /\ patients = NoRows
  /\ referrals = NoRows
  /\ last = NoResponse
  /\ sessions \in [pc : {"trigger"}, table : {"referrals", "patients"},
                   supplied : FormatSupplied, draw : FormatDraws, id : {NullText}]

\* set_referral_id_trigger on the session's row; generate_referral_id ends
\* on its first candidate, the table being empty.
DoSetReferralId ==
  /\ sessions.pc = "trigger"
  /\ sessions.table = "referrals"
  /\ CandidateFree(ReferralIds, ReferralCandidate(sessions.draw))
  /\ sessions' =
       [sessions EXCEPT
          !.pc = "done",
          !.id = set_referral_id(NewReferral("u2", NULL, "h1", "d1", sessions.supplied),
                                 ReferralCandidate(sessions.draw)).referral_id]
  /\ UNCHANGED <<profiles, hospitals, departments, doctor_hospitals, doctor_departments,
                 patients, referrals, last>>

\* set_patient_id_trigger on the session's row.
DoSetPatientId ==
  /\ sessions.pc = "trigger"
  /\ sessions.table = "patients"
  /\ CandidateFree(PatientIds, PatientCandidate(sessions.draw))
  /\ sessions' =
       [sessions EXCEPT
          !.pc = "done",
          !.id = set_patient_id(NewPatient("h1", sessions.supplied),
                                PatientCandidate(sessions.draw)).patient_id]
  /\ UNCHANGED <<profiles, hospitals, departments, doctor_hospitals, doctor_departments,
                 patients, referrals, last>>

NextFormat ==
  \/ DoSetReferralId
  \/ DoSetPatientId

SpecFormat == InitFormat /\ [][NextFormat]_vars

\* ------------------------------------------------------------ ReferralManagement
\* The ReferralManagement page of one signed-in browser: the lists fetchData
\* loaded, the calls of fetchData() under way (one is, from the mount on),
\* the create dialog (open or not), the form's fields, the calls of
\* handleCreateReferral under way, each with the fields it was submitted
\* with, and what the submission that ended last left behind.
MountedPage(uid) ==
  [caller |-> uid, hospitals |-> {}, departments |-> NoRows,
   fetches |-> SetToBag({[pc |-> "request", hospitals |-> {}, departments |-> NoRows]}),
   open |-> FALSE, target_hospital_id |-> "", target_department_id |-> "",
   urgency |-> "medium", handlers |-> EmptyBag, patient |-> 0, referral |-> 0, toast |-> ""]

\* The calls under way are a bag: two calls in the same position are two
\* calls.  One call more, one call less, and a call gone on to its next
\* position.
Started(calls, c) == calls (+) SetToBag({c})

Ended(calls, c) == calls (-) SetToBag({c})

Moved(calls, c, next) == Started(Ended(calls, c), next)

\* The requests of the fetchData() c under way reach the store: the
\* hospitals and departments the caller may read, as they are now.  (Of
\* the four lists of Promise.all the model follows these two; the hospitals
\* do not change in the specification, so the moment of their read is
\* immaterial.)
fetchData_request(c) ==
  /\ BagIn(c, sessions.fetches)
  /\ c.pc = "request"
  /\ sessions' =
       [sessions EXCEPT
          !.fetches =
             Moved(@, c,
                   [pc |-> "response",
                    hospitals |-> IF HospitalsSelectPolicy(sessions.caller)
                                  THEN DOMAIN hospitals ELSE {},
                    departments |->
                      IF DepartmentsSelectPolicy(sessions.caller)
                      THEN [d \in DOMAIN departments |-> departments[d].hospital_id]
                      ELSE NoRows])]
  /\ UNCHANGED <<profiles, hospitals, departments, doctor_hospitals, doctor_departments,
                 patients, referrals, last>>

\* The fetchData() c goes on after its await: with an error in one of
\* the results the toast "Error" and the lists stay; otherwise the lists are
\* what this call's requests read, whatever a later call has set meanwhile.
fetchData_then(c, error) ==
  /\ BagIn(c, sessions.fetches)
  /\ c.pc = "response"
  /\ sessions' =
       IF error
       THEN [sessions EXCEPT !.fetches = Ended(@, c), !.toast = "Error"]
       ELSE [sessions EXCEPT !.fetches = Ended(@, c),
                             !.hospitals = c.hospitals,
                             !.departments = c.departments]
  /\ UNCHANGED <<profiles, hospitals, departments, doctor_hospitals, doctor_departments,
                 patients, referrals, last>>

\* The dialog's trigger and its Cancel button (onOpenChange,
\* setIsCreateDialogOpen): the form keeps its fields.
setIsCreateDialogOpen(open) ==
  /\ sessions.open # open
  /\ sessions' = [sessions EXCEPT !.open = open]
  /\ UNCHANGED <<profiles, hospitals, departments, doctor_hospitals, doctor_departments,
                 patients, referrals, last>>

\* The hospital Select of the open dialog: onValueChange sets
\* target_hospital_id and clears target_department_id.
SelectTargetHospital(h) ==
  /\ sessions.open
  /\ h \in sessions.hospitals
  /\ sessions' = [sessions EXCEPT !.target_hospital_id = h, !.target_department_id = ""]
  /\ UNCHANGED <<profiles, hospitals, departments, doctor_hospitals, doctor_departments,
                 patients, referrals, last>>

\* departments.filter(dept => dept.hospital_id === selectedHospital)
filteredDepartments ==
  {d \in DOMAIN sessions.departments : sessions.departments[d] = sessions.target_hospital_id}

\* The department Select, disabled while no hospital is selected.
SelectTargetDepartment(d) ==
  /\ sessions.open
  /\ sessions.target_hospital_id # ""
  /\ d \in filteredDepartments
  /\ sessions' = [sessions EXCEPT !.target_department_id = d]
  /\ UNCHANGED <<profiles, hospitals, departments, doctor_hospitals, doctor_departments,
                 patients, referrals, last>>

\* The urgency Select.
SelectUrgency(u) ==
  /\ sessions.open
  /\ sessions' = [sessions EXCEPT !.urgency = u]
  /\ UNCHANGED <<profiles, hospitals, departments, doctor_hospitals, doctor_departments,
                 patients, referrals, last>>

\* The patient row handleCreateReferral inserts: current_hospital_id is
\* formData.target_hospital_id || null.
PatientOfForm(form) ==
  NewPatient(IF form.target_hospital_id = "" THEN NULL ELSE form.target_hospital_id,
             NullText)

\* A referral row that takes its origin hospital from the caller's profile.
ReferralFromHomeHospital(uid, form) ==
  [NewReferral(uid, NULL, form.target_hospital_id, form.target_department_id, NullText)
     EXCEPT !.patient_id = form.patient, !.urgency = form.urgency,
            !.origin_hospital_id = profiles[uid].hospital_id]

\* The referral row handleCreateReferral inserts: the patient just created,
\* the form's hospital as target and as origin, the form's department and
\* urgency, the caller as referring doctor; status is the column's default.
ReferralOfForm(uid, form) ==
  [NewReferral(uid, NULL, form.target_hospital_id, form.target_department_id, NullText)
     EXCEPT !.patient_id = form.patient, !.urgency = form.urgency]

\* What the store answers to the INSERT of a patient row with RETURNING.
InsertPatientOutcome(uid, row) ==
  IF ~PatientsWritePolicy(uid, row) THEN "rls_violation"
  ELSE IF ~UniqueOk(PatientIds, row.patient_id) THEN "unique_violation"
  ELSE IF row.current_hospital_id # NULL /\ row.current_hospital_id \notin DOMAIN hospitals
       THEN "foreign_key_violation"
  ELSE IF ~PatientsSelectPolicy(uid, row) THEN "rls_violation"
  ELSE "ok"

\* What the store answers to the INSERT of a referral row with RETURNING.
InsertReferralOutcome(uid, row) ==
  IF ~MedicalStaffCanCreateReferrals(uid, row) THEN "rls_violation"
  ELSE IF ~UniqueOk(ReferralIds, row.referral_id) THEN "unique_violation"
  ELSE IF \/ row.patient_id \notin DOMAIN patients
          \/ row.target_hospital_id \notin DOMAIN hospitals
          \/ row.origin_hospital_id \notin DOMAIN hospitals
          \/ row.target_department_id \notin DOMAIN departments
       THEN "foreign_key_violation"
  ELSE IF ~ReferralsSelectPolicy(uid, row) THEN "rls_violation"
  ELSE "ok"

\* The calls of handleCreateReferral of one page that may be under way at
\* a time.
MaxSubmissions == 1

\* handleCreateReferral begins, from the submit of the open dialog, whose
\* hospital and department are required: the handler keeps the form's fields
\* as they are now and awaits supabase.auth.getUser().
handleCreateReferral ==
  /\ sessions.open
  /\ BagCardinality(sessions.handlers) < MaxSubmissions
  /\ sessions.target_hospital_id # ""
  /\ sessions.target_department_id # ""
  /\ sessions' =
       [sessions EXCEPT !.handlers =
          Started(@, [pc |-> "getUser",
                      target_hospital_id |-> sessions.target_hospital_id,
                      target_department_id |-> sessions.target_department_id,
                      urgency |-> sessions.urgency, patient |-> 0])]
  /\ UNCHANGED <<profiles, hospitals, departments, doctor_hospitals, doctor_departments,
                 patients, referrals, last>>

\* getUser() of the handler h is answered: without a user the handler
\* toasts "Error" and ends; with one it sends the patient insert.
handleCreateReferral_getUser(h) ==
  /\ BagIn(h, sessions.handlers)
  /\ h.pc = "getUser"
  /\ sessions' =
       IF sessions.caller = NULL
       THEN [sessions EXCEPT !.handlers = Ended(@, h), !.patient = 0, !.referral = 0,
                             !.toast = "Error"]
       ELSE [sessions EXCEPT !.handlers = Moved(@, h, [h EXCEPT !.pc = "patient"])]
  /\ UNCHANGED <<profiles, hospitals, departments, doctor_hospitals, doctor_departments,
                 patients, referrals, last>>

\* The patient insert of the handler h (n is the draw the identifier
\* generator ends on).  On an error the handler toasts "Error" and ends; the
\* dialog and the form stay as they are.  With the new row it sends the
\* referral insert.
handleCreateReferral_patient(h, n) ==
  LET uid == sessions.caller
      row == set_patient_id(PatientOfForm(h), PatientCandidate(n))
      k == NewKey(patients, MaxPatients)
  IN /\ BagIn(h, sessions.handlers)
     /\ h.pc = "patient"
     /\ CandidateFree(PatientIds, PatientCandidate(n))
     /\ IF InsertPatientOutcome(uid, row) # "ok"
        THEN /\ sessions' = [sessions EXCEPT !.handlers = Ended(@, h), !.patient = 0,
                                             !.referral = 0, !.toast = "Error"]
             /\ UNCHANGED patients
        ELSE /\ Cardinality(DOMAIN patients) < MaxPatients
             /\ patients' = WithRow(patients, k, row)
             /\ sessions' =
                  [sessions EXCEPT !.handlers =
                     Moved(@, h, [h EXCEPT !.pc = "referral", !.patient = k])]
     /\ UNCHANGED <<profiles, hospitals, departments, doctor_hospitals, doctor_departments,
                    referrals, last>>

\* resetForm: the fields of the form the model follows.
resetForm(page) ==
  [page EXCEPT !.target_hospital_id = "", !.target_department_id = "",
               !.urgency = "medium"]

\* The referral insert of the handler h.  With the new row: "Success",
\* setIsCreateDialogOpen(false), resetForm() and fetchData(), which is not
\* awaited.  Without it: "Error", and nothing undoes the patient insert.
handleCreateReferral_referral(h, n) ==
  LET uid == sessions.caller
      row == set_referral_id(ReferralOfForm(uid, h), ReferralCandidate(n))
      k == NewKey(referrals, MaxReferrals)
  IN /\ BagIn(h, sessions.handlers)
     /\ h.pc = "referral"
     /\ CandidateFree(ReferralIds, ReferralCandidate(n))
     /\ IF InsertReferralOutcome(uid, row) # "ok"
        THEN /\ sessions' = [sessions EXCEPT !.handlers = Ended(@, h),
                                             !.patient = h.patient,
                                             !.referral = 0, !.toast = "Error"]
             /\ UNCHANGED referrals
        ELSE /\ Cardinality(DOMAIN referrals) < MaxReferrals
             /\ referrals' = WithRow(referrals, k, row)
             /\ sessions' =
                  [resetForm(sessions) EXCEPT
                     !.handlers = Ended(@, h), !.patient = h.patient,
                     !.referral = k, !.toast = "Success", !.open = FALSE,
                     !.fetches = Started(@, [pc |-> "request", hospitals |-> {},
                                             departments |-> NoRows])]
     /\ UNCHANGED <<profiles, hospitals, departments, doctor_hospitals, doctor_departments,
                    patients, last>>

\* ------------------------------------------------------------ SpecCreate
\* One ReferralManagement page, mounted by a doctor or a specialist, while
\* doctor u3 moves department d1 to another hospital or deletes department
\* d2.  The identifier generators end on the first draw no row has taken.
FormCallers == {"u2", "u4"}

FormUrgencies == {"medium", "critical"}

InitCreate ==
  /\ profiles = StaffProfiles
  /\ hospitals = HospitalRows
  /\ departments = DepartmentRows
  /\ doctor_hospitals = NoRows
  /\ doctor_departments = NoRows
  /\ patients = NoRows
  /\ referrals = NoRows
  /\ \E uid \in FormCallers : sessions = MountedPage(uid)
  /\ last = NoResponse

DoFetchRequest == \E c \in BagToSet(sessions.fetches) : fetchData_request(c)

DoFetchThen ==
  \E c \in BagToSet(sessions.fetches), error \in BOOLEAN : fetchData_then(c, error)

DoSetIsCreateDialogOpen == \E open \in BOOLEAN : setIsCreateDialogOpen(open)

DoSelectTargetHospital == \E h \in Hospitals : SelectTargetHospital(h)

DoSelectTargetDepartment == \E d \in Departments : SelectTargetDepartment(d)

DoSelectUrgency == \E u \in FormUrgencies : SelectUrgency(u)

DoSubmit == handleCreateReferral

DoGetUser == \E h \in BagToSet(sessions.handlers) : handleCreateReferral_getUser(h)

DoCreatePatient ==
  \E h \in BagToSet(sessions.handlers), n \in RandomDraws \cap {Cardinality(DOMAIN patients)} :
    handleCreateReferral_patient(h, n)

DoCreateReferral ==
  \E h \in BagToSet(sessions.handlers), n \in RandomDraws \cap {Cardinality(DOMAIN referrals)} :
    handleCreateReferral_referral(h, n)

DoMoveDepartment ==
  \E key \in DOMAIN departments \cap {"d1"}, h \in {"h2"} :
    UpdateDepartment("u3", key, [hospital_id |-> h])

DoRemoveDepartment ==
  \E key \in DOMAIN departments \cap {"d2"} : DeleteDepartment("u3", key)

NextCreate ==
  \/ DoFetchRequest
  \/ DoFetchThen
  \/ DoSetIsCreateDialogOpen
  \/ DoSelectTargetHospital
  \/ DoSelectTargetDepartment
  \/ DoSelectUrgency
  \/ DoSubmit
  \/ DoGetUser
  \/ DoCreatePatient
  \/ DoCreateReferral
  \/ DoMoveDepartment
  \/ DoRemoveDepartment

\* The requests of a fetchData() that was called reach the store and are
\* answered.
Fetched == WF_vars(DoFetchRequest) /\ WF_vars(DoFetchThen)

SpecCreate == InitCreate /\ [][NextCreate]_vars /\ Fetched

\* ------------------------------------------------------------ PatientDashboard
\* The columns of the referral row PatientDashboard.searchReferral selects.
PortalDetails(r) ==
  [referral_id |-> r.referral_id, status |-> r.status, urgency |-> r.urgency,
   reason |-> r.reason, notes |-> r.notes, specialist_notes |-> r.specialist_notes,
   appointment_date |-> r.appointment_date, created_at |-> r.created_at]

\* PatientDashboard.searchReferral by signed-in caller uid: a SELECT on the
\* referrals table under the caller's policies with
\* .eq('referral_id', referralId.toUpperCase()).single(); the embedded
\* tables are left joins and filter nothing.  No row is an error for
\* .single(), shown as "Referral Not Found".
PatientDashboard_searchReferral(uid, referralId) ==
  LET found == {k \in DOMAIN referrals :
                  /\ ReferralsSelectPolicy(uid, referrals[k])
                  /\ referrals[k].referral_id = UPPER(referralId)}
  IN /\ Len(referralId) > 0
     /\ last' = [Response("patient_dashboard_search", uid, referralId, 0,
                          IF Cardinality(found) = 1 THEN "ok" ELSE "not_single_row", found)
                   EXCEPT !.shown =
                     IF Cardinality(found) = 1
                     THEN [toast |-> "",
                           referralDetails |-> PortalDetails(referrals[CHOOSE k \in found : TRUE])]
                     ELSE [toast |-> "Referral Not Found", referralDetails |-> NoRow]]
     /\ UNCHANGED <<profiles, hospitals, departments, doctor_hospitals, doctor_departments,
                    patients, referrals, sessions>>

\* ------------------------------------------------------------ SpecPortal
\* The patient portal's search by a patient, the referring doctor and the
\* assigned specialist, over referrals doctor u2 created.
PortalCallers == {"u6", "u2", "u4"}

InitPortal == Init

DoPortalSearch ==
  \E uid \in PortalCallers, referralId \in TrackInputs :
    PatientDashboard_searchReferral(uid, referralId)

NextPortal ==
  \/ DoCreateTracked
  \/ DoTriage
  \/ DoPortalSearch

SpecPortal == InitPortal /\ [][NextPortal]_vars

\* ------------------------------------------------------------ SpecReach
\* One signed-in caller who is not an admin, the dataset's profiles, a
\* patient at h1 and a referral of doctor u2 to h1 assigned to specialist
\* u4: every request of the behaviour is this caller's.
SeedReferral == NewReferral("u2", "u4", "h1", "d1", ReferralCandidate(0))

ReachCallers == {u \in Users : StaffProfiles[u].role # "admin"}

InitReach ==
  /\ profiles = StaffProfiles
  /\ hospitals = HospitalRows
  /\ departments = DepartmentRows
  /\ doctor_hospitals = NoRows
  /\ doctor_departments = NoRows
  /\ patients = WithRow(NoRows, 1, SeedPatient)
  /\ referrals = WithRow(NoRows, 1, SeedReferral)
  /\ sessions \in [caller : ReachCallers]
  /\ last = NoResponse

DoSetOwnRole ==
  \E role \in user_role :
    UpdateProfile("update_profile", sessions.caller, sessions.caller, [role |-> role])

DoSetOwnHospital ==
  \E h \in Hospitals \cup {NULL} :
    UpdateProfile("update_profile", sessions.caller, sessions.caller, [hospital_id |-> h])

DoReadReferrals == SelectReferrals(sessions.caller)

DoReadPatients == SelectPatients(sessions.caller)

DoSetStatus ==
  \E key \in DOMAIN referrals, status \in DialogStatuses :
    SpecialistDashboard_updateReferralStatus(sessions.caller, key, status, NULL, NULL)

DoRenamePatient ==
  \E key \in DOMAIN patients : UpdatePatient(sessions.caller, key, [full_name |-> "other"])

NextReach ==
  \/ DoSetOwnRole
  \/ DoSetOwnHospital
  \/ DoReadReferrals
  \/ DoReadPatients
  \/ DoSetStatus
  \/ DoRenamePatient

SpecReach == InitReach /\ [][NextReach]_vars

\* ------------------------------------------------------------ SpecialistDashboard
\* value || '' and value || null of the dialog's text fields.
OrEmpty(v) == IF v = NULL THEN "" ELSE v

OrNull(v) == IF v = "" THEN NULL ELSE v

\* The dashboard of one signed-in specialist: the calls of
\* fetchDashboardData() under way (one is, from the mount on), the calls of
\* updateReferralStatus under way, the referrals the list shows, the
\* referral under review (0: none), the dialog's fields, the last toast.
IdleDashboard ==
  [fetches |-> SetToBag({[pc |-> "counts", referrals |-> NoRows]}),
   handlers |-> EmptyBag, referrals |-> NoRows, selectedReferral |-> 0,
   updateData |-> [status |-> "", specialist_notes |-> "", appointment_date |-> ""],
   toast |-> ""]

\* The calls of updateReferralStatus and of fetchDashboardData() of one
\* dashboard that may be under way at a time.
MaxRefreshes == 2

\* The call c of fetchDashboardData() of specialist u goes on after its
\* first await, the four count requests (the counts are not followed): it
\* sends the list request.
fetchDashboardData_counts(u, c) ==
  /\ BagIn(c, sessions[u].fetches)
  /\ c.pc = "counts"
  /\ sessions' = [sessions EXCEPT ![u].fetches = Moved(@, c, [c EXCEPT !.pc = "list"])]
  /\ UNCHANGED <<profiles, hospitals, departments, doctor_hospitals, doctor_departments,
                 patients, referrals, last>>

\* The list request of the call c reaches the store: the rows the policies
\* pass that are assigned to u or target u's hospital, as they are now.
fetchDashboardData_list(u, c) ==
  /\ BagIn(c, sessions[u].fetches)
  /\ c.pc = "list"
  /\ sessions' =
       [sessions EXCEPT
          ![u].fetches =
             Moved(@, c,
                   [pc |-> "response",
                    referrals |->
                      [k \in {j \in DOMAIN referrals :
                                /\ ReferralsSelectPolicy(u, referrals[j])
                                /\ \/ SqlEq(referrals[j].target_specialist_id, u)
                                   \/ SqlEq(referrals[j].target_hospital_id,
                                            profiles[u].hospital_id)}
                         |-> referrals[k]]])]
  /\ UNCHANGED <<profiles, hospitals, departments, doctor_hospitals, doctor_departments,
                 patients, referrals, last>>

\* The call c goes on after the await of its list request: the list is what
\* this call's request read, whatever a later call has set meanwhile; an
\* error is logged and the list stays.
fetchDashboardData_then(u, c, error) ==
  /\ BagIn(c, sessions[u].fetches)
  /\ c.pc = "response"
  /\ sessions' =
       IF error THEN [sessions EXCEPT ![u].fetches = Ended(@, c)]
       ELSE [sessions EXCEPT ![u].fetches = Ended(@, c), ![u].referrals = c.referrals]
  /\ UNCHANGED <<profiles, hospitals, departments, doctor_hospitals, doctor_departments,
                 patients, referrals, last>>

\* The Review button of a referral the list shows as pending: the dialog
\* opens on in_progress with the notes and date of the fetched row.
Review(u, key) ==
  /\ key \in DOMAIN sessions[u].referrals
  /\ sessions[u].referrals[key].status = "pending"
  /\ sessions' =
       [sessions EXCEPT
          ![u].selectedReferral = key,
          ![u].updateData =
             [status |-> "in_progress",
              specialist_notes |-> OrEmpty(sessions[u].referrals[key].specialist_notes),
              appointment_date |-> OrEmpty(sessions[u].referrals[key].appointment_date)]]
  /\ UNCHANGED <<profiles, hospitals, departments, doctor_hospitals, doctor_departments,
                 patients, referrals, last>>

\* The dialog's Cancel button: setSelectedReferral(null); the fields stay
\* until the next Review.
CancelReview(u) ==
  /\ sessions[u].selectedReferral # 0
  /\ sessions' = [sessions EXCEPT ![u].selectedReferral = 0]
  /\ UNCHANGED <<profiles, hospitals, departments, doctor_hospitals, doctor_departments,
                 patients, referrals, last>>

\* The dialog's status Select, notes Textarea and appointment-date input.
EditUpdateData(u, status, specialist_notes, appointment_date) ==
  /\ sessions[u].selectedReferral # 0
  /\ sessions' = [sessions EXCEPT ![u].updateData.status = status,
                                  ![u].updateData.specialist_notes = specialist_notes,
                                  ![u].updateData.appointment_date = appointment_date]
  /\ UNCHANGED <<profiles, hospitals, departments, doctor_hospitals, doctor_departments,
                 patients, referrals, last>>

\* An UPDATE that sends the status alone.
StatusOnlyPatch(updateData) == [status |-> updateData.status]

\* The columns SpecialistDashboard.updateReferralStatus sends.
StatusPatch(updateData) ==
  [status |-> updateData.status,
   specialist_notes |-> OrNull(updateData.specialist_notes),
   appointment_date |-> OrNull(updateData.appointment_date)]

\* SpecialistDashboard.updateReferralStatus of specialist u begins, from the
\* Update button of the dialog, which stays enabled: without a status it
\* returns; otherwise the UPDATE leaves with the id of the referral under
\* review and the dialog's fields as they are at the click, and the handler
\* awaits the answer while the dialog stays open and editable.
updateReferralStatus(u) ==
  /\ sessions[u].selectedReferral # 0
  /\ sessions[u].updateData.status # ""
  /\ sessions' =
       [sessions EXCEPT ![u].handlers =
          Started(@, [pc |-> "update", key |-> sessions[u].selectedReferral,
                      updateData |-> sessions[u].updateData, error |-> FALSE])]
  /\ UNCHANGED <<profiles, hospitals, departments, doctor_hospitals, doctor_departments,
                 patients, referrals, last>>

\* The UPDATE of the handler h reaches the store: by id, whatever the row
\* holds by now; a row the policies hide is not updated, and that is no
\* error.  The answer the handler gets is { error } alone.
updateReferralStatus_update(u, h) ==
  LET patch == StatusPatch(h.updateData)
      reached == /\ h.key \in DOMAIN referrals
                 /\ ReferralsSelectPolicy(u, referrals[h.key])
                 /\ SpecialistsCanUpdateAssignedReferrals(u, referrals[h.key])
      new == ApplyPatch(referrals[h.key], patch)
      refused == reached /\ ~SpecialistsCanUpdateAssignedReferrals(u, new)
  IN /\ BagIn(h, sessions[u].handlers)
     /\ h.pc = "update"
     /\ referrals' = IF reached /\ ~refused THEN [referrals EXCEPT ![h.key] = new]
                     ELSE referrals
     /\ sessions' = [sessions EXCEPT ![u].handlers =
                       Moved(@, h, [h EXCEPT !.pc = "then", !.error = refused])]
     /\ UNCHANGED <<profiles, hospitals, departments, doctor_hospitals, doctor_departments,
                    patients, last>>

\* The handler h goes on after its await: with an error the toast "Error",
\* and the dialog stays; otherwise the toast "Success",
\* setSelectedReferral(null), the dialog's fields cleared, and
\* fetchDashboardData(), which it does not await: the list is the old one
\* until a call is answered.
updateReferralStatus_then(u, h) ==
  /\ BagIn(h, sessions[u].handlers)
  /\ h.pc = "then"
  /\ sessions' =
       IF h.error
       THEN [sessions EXCEPT ![u].handlers = Ended(@, h), ![u].toast = "Error"]
       ELSE [sessions EXCEPT
               ![u].fetches = Started(@, [pc |-> "counts", referrals |-> NoRows]),
               ![u].handlers = Ended(@, h),
               ![u].selectedReferral = 0,
               ![u].updateData = [status |-> "", specialist_notes |-> "",
                                  appointment_date |-> ""],
               ![u].toast = "Success"]
  /\ UNCHANGED <<profiles, hospitals, departments, doctor_hospitals, doctor_departments,
                 patients, referrals, last>>

\* ------------------------------------------------------------ SpecStale
\* Two specialists of hospital h1, u4 the referral's target specialist and
\* u5 allocated to h1, each with a dashboard of their own over the one
\* referral of the dataset.
Reviewers == {"u4", "u5"}

InitStale ==
  /\ profiles = [StaffProfiles EXCEPT !["u5"].hospital_id = "h1"]
  /\ hospitals = HospitalRows
  /\ departments = DepartmentRows
  /\ doctor_hospitals = NoRows
  /\ doctor_departments = NoRows
  /\ patients = WithRow(NoRows, 1, SeedPatient)
  /\ referrals = WithRow(NoRows, 1, SeedReferral)
  /\ sessions = [u \in Reviewers |-> IdleDashboard]
  /\ last = NoResponse

DoFetchCounts ==
  \E u \in Reviewers : \E c \in BagToSet(sessions[u].fetches) : fetchDashboardData_counts(u, c)

DoFetchList ==
  \E u \in Reviewers : \E c \in BagToSet(sessions[u].fetches) : fetchDashboardData_list(u, c)

DoFetchListThen ==
  \E u \in Reviewers, error \in BOOLEAN :
    \E c \in BagToSet(sessions[u].fetches) : fetchDashboardData_then(u, c, error)

DoReview == \E u \in Reviewers, key \in DOMAIN referrals : Review(u, key)

\* What is selected and typed in the model: u4 sets in_progress with notes, or
\* completed with an appointment date; u5 submits the dialog as it opened.
DialogEdits(u) ==
  IF u = "u4"
  THEN {[status |-> "in_progress", specialist_notes |-> "note-u4", appointment_date |-> ""],
        [status |-> "completed", specialist_notes |-> "",
         appointment_date |-> "2025-10-01T10:00"]}
  ELSE {}

DoEditUpdateData ==
  \E u \in Reviewers : \E d \in DialogEdits(u) :
    /\ d.status \in DialogStatuses
    /\ EditUpdateData(u, d.status, d.specialist_notes, d.appointment_date)

DoCancelReview == \E u \in Reviewers : CancelReview(u)

\* The Update button is pressed while fewer than MaxRefreshes calls of the
\* dashboard are under way.
DoUpdateReferralStatus ==
  \E u \in Reviewers :
    /\ BagCardinality(sessions[u].handlers) + BagCardinality(sessions[u].fetches)
         < MaxRefreshes
    /\ updateReferralStatus(u)

DoUpdate ==
  \E u \in Reviewers : \E h \in BagToSet(sessions[u].handlers) :
    updateReferralStatus_update(u, h)

DoUpdateThen ==
  \E u \in Reviewers : \E h \in BagToSet(sessions[u].handlers) :
    updateReferralStatus_then(u, h)

NextStale ==
  \/ DoFetchCounts
  \/ DoFetchList
  \/ DoFetchListThen
  \/ DoReview
  \/ DoCancelReview
  \/ DoEditUpdateData
  \/ DoUpdateReferralStatus
  \/ DoUpdate
  \/ DoUpdateThen

\* The requests of a fetchDashboardData() that was called reach the store
\* and are answered, and so is the UPDATE of an updateReferralStatus.
Refreshed ==
  /\ WF_vars(DoFetchCounts) /\ WF_vars(DoFetchList) /\ WF_vars(DoFetchListThen)
  /\ WF_vars(DoUpdate) /\ WF_vars(DoUpdateThen)

SpecStale == InitStale /\ [][NextStale]_vars /\ Refreshed

\* ------------------------------------------------------------ DoctorManagement
\* The answers a call of DoctorManagement.fetchData has so far, and the
\* await it is at.
FetchBegun ==
  [pc |-> "profiles", doctors |-> {}, hospital_assignments |-> {},
   department_assignments |-> {}]

NoFetch == [FetchBegun EXCEPT !.pc = "idle"]

\* The DoctorManagement page of one signed-in admin: loading (a fetchData()
\* is under way, as one is from the mount on; the page then renders the
\* spinner only), fetching (how far that call is), the departments and the
\* doctors with their assignments as fetchData loaded them, the dialog (open or not), the doctor under edit and
\* the selections, updating and the position of saveAssignments (pending: the
\* DELETE requests not yet answered), what saveAssignments was called with
\* (saved), the last toast, and for reference, while saveAssignments runs,
\* what the doctor's assignments were when it began.
MountedDoctors ==
  [pc |-> "idle", departments |-> NoRows, fetching |-> FetchBegun, doctors |-> NoRows,
   dialogOpen |-> FALSE, selectedDoctor |-> NULL, selectedHospitals |-> {},
   selectedDepartments |-> {}, pending |-> {}, saved |-> NoRow, loading |-> TRUE,
   updating |-> FALSE, toast |-> "", before |-> [hospitals |-> {}, departments |-> {}]]

\* The hospitals the store assigns to a doctor, and the (department,
\* hospital) pairs.
AssignedHospitals(doctor) ==
  {doctor_hospitals[k].hospital_id :
     k \in {j \in DOMAIN doctor_hospitals : doctor_hospitals[j].doctor_id = doctor}}

AssignedDepartments(doctor) ==
  {<<doctor_departments[k].department_id, doctor_departments[k].hospital_id>> :
     k \in {j \in DOMAIN doctor_departments : doctor_departments[j].doctor_id = doctor}}

\* fetchData ends in its catch: the toast "Error", the lists stay as they
\* were, and finally setLoading(false).
FetchFailed(page) ==
  [page EXCEPT !.fetching = NoFetch, !.loading = FALSE, !.toast = "Error"]

\* fetchData of admin a, called by the mount effect and by saveAssignments
\* after a success, goes on after its first await: the profiles of role
\* doctor the admin may read, as they are when the request is answered.
fetchData_doctors(a, error) ==
  /\ sessions[a].fetching.pc = "profiles"
  /\ sessions' =
       IF error THEN [sessions EXCEPT ![a] = FetchFailed(@)]
       ELSE [sessions EXCEPT
               ![a].fetching.pc = "doctor_hospitals",
               ![a].fetching.doctors = {u \in Users : /\ profiles[u] # NoRow
                                                      /\ profiles[u].role = "doctor"
                                                      /\ ProfilesSelectPolicy(a, u)}]
  /\ UNCHANGED <<profiles, hospitals, departments, doctor_hospitals, doctor_departments,
                 patients, referrals, last>>

\* The second await: the doctor_hospitals rows the admin may read, as they
\* are now.
fetchData_hospitalAssignments(a, error) ==
  /\ sessions[a].fetching.pc = "doctor_hospitals"
  /\ sessions' =
       IF error THEN [sessions EXCEPT ![a] = FetchFailed(@)]
       ELSE [sessions EXCEPT
               ![a].fetching.pc = "doctor_departments",
               ![a].fetching.hospital_assignments =
                  {<<doctor_hospitals[k].doctor_id, doctor_hospitals[k].hospital_id>> :
                     k \in {j \in DOMAIN doctor_hospitals :
                              AssignmentsSelectPolicy(a, doctor_hospitals[j])}}]
  /\ UNCHANGED <<profiles, hospitals, departments, doctor_hospitals, doctor_departments,
                 patients, referrals, last>>

\* The third await: the doctor_departments rows the admin may read, as they
\* are now.
fetchData_departmentAssignments(a, error) ==
  /\ sessions[a].fetching.pc = "doctor_departments"
  /\ sessions' =
       IF error THEN [sessions EXCEPT ![a] = FetchFailed(@)]
       ELSE [sessions EXCEPT
               ![a].fetching.pc = "lists",
               ![a].fetching.department_assignments =
                  {<<doctor_departments[k].doctor_id, doctor_departments[k].department_id>> :
                     k \in {j \in DOMAIN doctor_departments :
                              AssignmentsSelectPolicy(a, doctor_departments[j])}}]
  /\ UNCHANGED <<profiles, hospitals, departments, doctor_hospitals, doctor_departments,
                 patients, referrals, last>>

\* The fourth await, of the hospitals and the departments: the departments
\* are set, and the doctors with the assignments the earlier requests read
\* for each; finally setLoading(false).
fetchData_lists(a, error) ==
  LET c == sessions[a].fetching
  IN /\ c.pc = "lists"
     /\ sessions' =
          IF error THEN [sessions EXCEPT ![a] = FetchFailed(@)]
          ELSE [sessions EXCEPT
                  ![a].fetching = NoFetch,
                  ![a].loading = FALSE,
                  ![a].departments =
                     IF DepartmentsSelectPolicy(a)
                     THEN [d \in DOMAIN departments |-> departments[d].hospital_id]
                     ELSE NoRows,
                  ![a].doctors =
                     [doctor \in c.doctors |->
                        [hospital_assignments |->
                           {ha[2] : ha \in {x \in c.hospital_assignments : x[1] = doctor}},
                         department_assignments |->
                           {da[2] : da \in {x \in c.department_assignments :
                                              x[1] = doctor}}]]]
     /\ UNCHANGED <<profiles, hospitals, departments, doctor_hospitals, doctor_departments,
                    patients, referrals, last>>

\* openAssignmentDialog(doctor), from the button of a doctor of the list:
\* the selections are the assignments the list holds for the doctor; no
\* request is sent.
openAssignmentDialog(a, doctor) ==
  /\ ~sessions[a].loading
  /\ ~sessions[a].dialogOpen
  /\ doctor \in DOMAIN sessions[a].doctors
  /\ sessions' =
       [sessions EXCEPT
          ![a].selectedDoctor = doctor,
          ![a].selectedHospitals = sessions[a].doctors[doctor].hospital_assignments,
          ![a].selectedDepartments = sessions[a].doctors[doctor].department_assignments,
          ![a].dialogOpen = TRUE]
  /\ UNCHANGED <<profiles, hospitals, departments, doctor_hospitals, doctor_departments,
                 patients, referrals, last>>

\* The dialog's Cancel button and onOpenChange: setDialogOpen(false), and
\* nothing is saved.
setDialogOpen_false(a) ==
  /\ ~sessions[a].loading
  /\ sessions[a].dialogOpen
  /\ sessions' = [sessions EXCEPT ![a].dialogOpen = FALSE]
  /\ UNCHANGED <<profiles, hospitals, departments, doctor_hospitals, doctor_departments,
                 patients, referrals, last>>

\* handleHospitalToggle(hospitalId), from a checkbox of the open dialog,
\* which stays enabled while saveAssignments runs: the hospital enters or
\* leaves selectedHospitals; a selected department stays when its hospital is
\* in selectedHospitals as it was before the toggle, or is the toggled one.
handleHospitalToggle(a, hospitalId) ==
  LET prev == sessions[a].selectedHospitals
  IN /\ ~sessions[a].loading
     /\ sessions[a].dialogOpen
     /\ sessions' =
          [sessions EXCEPT
             ![a].selectedHospitals =
                IF hospitalId \in prev THEN prev \ {hospitalId} ELSE prev \cup {hospitalId},
             ![a].selectedDepartments =
                {d \in sessions[a].selectedDepartments :
                   /\ d \in DOMAIN sessions[a].departments
                   /\ \/ sessions[a].departments[d] \in prev
                      \/ hospitalId = sessions[a].departments[d]}]
     /\ UNCHANGED <<profiles, hospitals, departments, doctor_hospitals, doctor_departments,
                    patients, referrals, last>>

\* departments.filter(dept => selectedHospitals.includes(dept.hospital_id))
getAvailableDepartments(a) ==
  {d \in DOMAIN sessions[a].departments :
     sessions[a].departments[d] \in sessions[a].selectedHospitals}

\* handleDepartmentToggle(departmentId), from the checkbox of an available
\* department of the open dialog.
handleDepartmentToggle(a, departmentId) ==
  LET prev == sessions[a].selectedDepartments
  IN /\ ~sessions[a].loading
     /\ sessions[a].dialogOpen
     /\ departmentId \in getAvailableDepartments(a)
     /\ sessions' =
          [sessions EXCEPT ![a].selectedDepartments =
             IF departmentId \in prev THEN prev \ {departmentId}
             ELSE prev \cup {departmentId}]
     /\ UNCHANGED <<profiles, hospitals, departments, doctor_hospitals, doctor_departments,
                    patients, referrals, last>>

\* The table with the rows of a multi-row INSERT.
RECURSIVE WithRows(_, _, _)
WithRows(table, rows, max) ==
  IF rows = {} THEN table
  ELSE LET row == CHOOSE r \in rows : TRUE
       IN WithRows(WithRow(table, NewKey(table, max), row), rows \ {row}, max)

\* What the store answers to a multi-row INSERT into junction table t.
InsertAssignmentsOutcome(t, uid, rows) ==
  IF ~AdminsCanManageAllAssignments(uid) THEN "rls_violation"
  ELSE IF \E row \in rows :
            UniqueColumns(t, row) \in {UniqueColumns(t, AssignmentsOf(t)[k]) :
                                         k \in DOMAIN AssignmentsOf(t)}
       THEN "unique_violation"
  ELSE IF \E row \in rows : ~AssignmentReferencesExist(t, row) THEN "foreign_key_violation"
  ELSE "ok"

\* saveAssignments begins, from the Save button (disabled while updating):
\* setUpdating(true) and both DELETE requests are sent.  The handler goes on
\* with the doctor, the selections and the departments of this moment.
saveAssignments_begin(a) ==
  /\ ~sessions[a].loading
  /\ sessions[a].dialogOpen
  /\ ~sessions[a].updating
  /\ sessions' =
       [sessions EXCEPT
          ![a].pc = "delete",
          ![a].pending = AssignmentTables,
          ![a].updating = TRUE,
          ![a].saved = [departments |-> sessions[a].departments,
                        selectedDoctor |-> sessions[a].selectedDoctor,
                        selectedHospitals |-> sessions[a].selectedHospitals,
                        selectedDepartments |-> sessions[a].selectedDepartments],
          ![a].before = [hospitals |-> AssignedHospitals(sessions[a].selectedDoctor),
                         departments |-> AssignedDepartments(sessions[a].selectedDoctor)]]
  /\ UNCHANGED <<profiles, hospitals, departments, doctor_hospitals, doctor_departments,
                 patients, referrals, last>>

\* One of the two DELETE ... WHERE doctor_id = selectedDoctor.id requests is
\* answered; its error, if any, is not looked at.
saveAssignments_delete(a, t) ==
  LET table == AssignmentsOf(t)
      gone == {k \in DOMAIN table :
                 /\ table[k].doctor_id = sessions[a].saved.selectedDoctor
                 /\ AssignmentsSelectPolicy(a, table[k])
                 /\ AdminsCanManageAllAssignments(a)}
  IN /\ sessions[a].pc = "delete"
     /\ t \in sessions[a].pending
     /\ SetAssignments(t, WithoutRows(table, gone))
     /\ sessions' =
          [sessions EXCEPT
             ![a].pending = sessions[a].pending \ {t},
             ![a].pc = IF sessions[a].pending = {t} THEN "insert_hospitals" ELSE "delete"]
     /\ UNCHANGED <<profiles, hospitals, departments, patients, referrals, last>>

\* saveAssignments ends with an error: the toast "Error", setUpdating(false);
\* the dialog stays as it is.
SaveFailed(page) ==
  [page EXCEPT !.pc = "idle", !.updating = FALSE, !.toast = "Error",
               !.before = [hospitals |-> {}, departments |-> {}]]

\* The INSERT of the hospitals selected at the click, skipped when none was;
\* an error ends the handler.
saveAssignments_hospitals(a) ==
  LET rows == {[doctor_id |-> sessions[a].saved.selectedDoctor, hospital_id |-> h] :
                 h \in sessions[a].saved.selectedHospitals}
  IN /\ sessions[a].pc = "insert_hospitals"
     /\ IF rows = {}
        THEN /\ sessions' = [sessions EXCEPT ![a].pc = "insert_departments"]
             /\ UNCHANGED <<doctor_hospitals, doctor_departments>>
        ELSE IF InsertAssignmentsOutcome("doctor_hospitals", a, rows) # "ok"
        THEN /\ sessions' = [sessions EXCEPT ![a] = SaveFailed(@)]
             /\ UNCHANGED <<doctor_hospitals, doctor_departments>>
        ELSE /\ SetAssignments("doctor_hospitals",
                               WithRows(doctor_hospitals, rows, Cardinality(Users \X Hospitals)))
             /\ sessions' = [sessions EXCEPT ![a].pc = "insert_departments"]
     /\ UNCHANGED <<profiles, hospitals, departments, patients, referrals, last>>

\* The INSERT of the departments selected at the click, each with the
\* hospital the department list gives it; then "Success", setDialogOpen(false),
\* fetchData() (which sets loading) and setUpdating(false).
saveAssignments_departments(a) ==
  LET rows == {[doctor_id |-> sessions[a].saved.selectedDoctor, department_id |-> d,
                hospital_id |-> sessions[a].saved.departments[d]] :
                 d \in sessions[a].saved.selectedDepartments}
  IN /\ sessions[a].pc = "insert_departments"
     /\ IF rows # {} /\ InsertAssignmentsOutcome("doctor_departments", a, rows) # "ok"
        THEN /\ sessions' = [sessions EXCEPT ![a] = SaveFailed(@)]
             /\ UNCHANGED <<doctor_hospitals, doctor_departments>>
        ELSE /\ SetAssignments("doctor_departments",
                               WithRows(doctor_departments, rows,
                                        Cardinality(Users \X Departments)))
             /\ sessions' = [sessions EXCEPT ![a].pc = "idle", ![a].dialogOpen = FALSE,
                                             ![a].fetching = FetchBegun,
                                             ![a].loading = TRUE, ![a].updating = FALSE,
                                             ![a].toast = "Success",
                                             ![a].before = [hospitals |-> {},
                                                            departments |-> {}]]
     /\ UNCHANGED <<profiles, hospitals, departments, patients, referrals, last>>

\* ------------------------------------------------------------ SpecDialog
\* Two admins, each with a DoctorManagement page of their own, edit the
\* assignments of doctor u2.
Savers == {"u1", "u5"}

InitDialog ==
  /\ profiles = [StaffProfiles EXCEPT !["u5"].role = "admin"]
  /\ hospitals = HospitalRows
  /\ departments = DepartmentRows
  /\ doctor_hospitals = NoRows
  /\ doctor_departments = NoRows
  /\ patients = NoRows
  /\ referrals = NoRows
  /\ sessions = [a \in Savers |-> MountedDoctors]
  /\ last = NoResponse

DoFetchDoctors == \E a \in Savers, error \in BOOLEAN : fetchData_doctors(a, error)

DoFetchHospitalAssignments ==
  \E a \in Savers, error \in BOOLEAN : fetchData_hospitalAssignments(a, error)

DoFetchDepartmentAssignments ==
  \E a \in Savers, error \in BOOLEAN : fetchData_departmentAssignments(a, error)

DoFetchLists == \E a \in Savers, error \in BOOLEAN : fetchData_lists(a, error)

DoOpenAssignmentDialog == \E a \in Savers : openAssignmentDialog(a, "u2")

DoCloseDialog == \E a \in Savers : setDialogOpen_false(a)

DoHospitalToggle == \E a \in Savers, h \in {"h1"} : handleHospitalToggle(a, h)

DoDepartmentToggle == \E a \in Savers, d \in {"d1"} : handleDepartmentToggle(a, d)

\* Each admin saves once.
DoSaveBegin == \E a \in Savers : sessions[a].saved = NoRow /\ saveAssignments_begin(a)

DoSaveDelete == \E a \in Savers, t \in AssignmentTables : saveAssignments_delete(a, t)

DoSaveHospitals == \E a \in Savers : saveAssignments_hospitals(a)

DoSaveDepartments == \E a \in Savers : saveAssignments_departments(a)

NextDialog ==
  \/ DoFetchDoctors
  \/ DoFetchHospitalAssignments
  \/ DoFetchDepartmentAssignments
  \/ DoFetchLists
  \/ DoOpenAssignmentDialog
  \/ DoCloseDialog
  \/ DoHospitalToggle
  \/ DoDepartmentToggle
  \/ DoSaveBegin
  \/ DoSaveDelete
  \/ DoSaveHospitals
  \/ DoSaveDepartments

SpecDialog == InitDialog /\ [][NextDialog]_vars

\* ------------------------------------------------------------ SpecLoop
\* The loops of generate_referral_id and generate_patient_id alone: every
\* session sits in the WHILE loop of one of the two functions while the two
\* tables hold any set of this year's candidates, all of them included, every
\* referral being a referral of a patient of the table.  No
\* row is committed or deleted meanwhile.  The random source is fair: a value
\* it can yield is yielded again and again.
TakenReferrals(taken, patient) ==
  [k \in {n + 1 : n \in taken} |->
     [NewReferral("u2", "u4", "h1", "d1", ReferralCandidate(k - 1))
        EXCEPT !.patient_id = patient]]

TakenPatients(taken) ==
  [k \in {n + 1 : n \in taken} |-> NewPatient("h1", PatientCandidate(k - 1))]

InitLoop ==
  /\ profiles = StaffProfiles
  /\ hospitals = HospitalRows
  /\ departments = DepartmentRows
  /\ doctor_hospitals = NoRows
  /\ doctor_departments = NoRows
  /\ \E taken \in SUBSET RandomDraws : patients = TakenPatients(taken)
  /\ \E taken \in SUBSET RandomDraws :
       /\ taken # {} => DOMAIN patients # {}
       /\ referrals = IF taken = {} THEN NoRows
                      ELSE TakenReferrals(taken, FirstKey(patients))
  /\ sessions \in [1..MaxSessions ->
                     {[IdleSession EXCEPT !.pc = "generate", !.table = t] :
                        t \in {"referrals", "patients"}}]
  /\ last = NoResponse

NextLoop ==
  \/ DoGenerateReferralId
  \/ DoGeneratePatientId

FairRandom ==
  \A i \in 1..MaxSessions, n \in RandomDraws :
    /\ WF_vars(generate_referral_id(i, n))
    /\ WF_vars(generate_patient_id(i, n))

SpecLoop == InitLoop /\ [][NextLoop]_vars /\ FairRandom

\* ------------------------------------------------------------ useAuth
\* The hook's state (user, session, profile, loading), the session the auth
\* client holds (auth), and what the hook's effect left running: the
\* INITIAL_SESSION event of the subscription, the getSession() promise with
\* its profile fetch, and the profile fetches the listener deferred with
\* setTimeout, one for every event that carried a session.  signingIn and
\* signingOut hold the results of supabase.auth.signInWithPassword() and
\* supabase.auth.signOut() that a call of signIn or signOut still awaits
\* (TRUE: an error), updating the answers the calls of updateProfile still
\* await; each is a bag, one entry for every call.  A session is written as
\* its user's id, a null profile as NoRow.
MountedHook(stored) ==
  [auth |-> stored, user |-> NULL, session |-> NULL, profile |-> NoRow, loading |-> TRUE,
   initial |-> "pending", getSession |-> "pending", fetched |-> NoRow,
   deferred |-> EmptyBag, signingIn |-> EmptyBag, signingOut |-> EmptyBag,
   updating |-> EmptyBag, toast |-> ""]

\* supabase.from('profiles').select('*').eq('id', id).single() with the token
\* of caller: the row when the SELECT policies show it, an error when the
\* query has no row.
SingleProfile(caller, id) ==
  IF profiles[id] # NoRow /\ ProfilesSelectPolicy(caller, id)
  THEN [error |-> FALSE,
        data |-> [id |-> id, role |-> profiles[id].role,
                  hospital_id |-> profiles[id].hospital_id,
                  full_name |-> profiles[id].full_name]]
  ELSE [error |-> TRUE, data |-> NoRow]

\* The listener given to onAuthStateChange, up to its setTimeout: every
\* event with a session queues a timer of its own, which keeps the id of the
\* session the event carried.
onAuthStateChange(hook, session) ==
  [hook EXCEPT !.session = session,
               !.user = session,
               !.profile = IF session = NULL THEN NoRow ELSE @,
               !.deferred = IF session = NULL THEN @
                            ELSE Started(@, [id |-> session, stage |-> "timer",
                                             result |-> NoRow]),
               !.loading = FALSE]

\* The end of the deferred fetch: the toast on an error, setProfile(profileData)
\* otherwise.
InstallProfile(hook, item) ==
  IF item.result.error THEN [hook EXCEPT !.toast = "Error"]
  ELSE [hook EXCEPT !.profile = item.result.data]

\* The callbacks the hook is waiting for; an event or a call that would add
\* one arrives while fewer than MaxCallbacks wait.
Callbacks(hook) ==
  BagCardinality(hook.deferred) + BagCardinality(hook.signingIn)
    + BagCardinality(hook.signingOut) + BagCardinality(hook.updating)

AuthFrame ==
  UNCHANGED <<profiles, hospitals, departments, doctor_hospitals, doctor_departments,
              patients, referrals, last>>

\* The subscription's first event, INITIAL_SESSION, with the stored session.
useAuth_initialSession ==
  /\ sessions.initial = "pending"
  /\ sessions' = [onAuthStateChange(sessions, sessions.auth) EXCEPT !.initial = "done"]
  /\ AuthFrame

\* useAuth.signIn up to its await of supabase.auth.signInWithPassword(); the
\* function has no test of its own, and the client signs in whatever session
\* it holds.  With an error nothing changes; otherwise the client holds the
\* new session and the listener receives SIGNED_IN inside the awaited call.
signIn(u, error) ==
  /\ sessions' =
       IF error THEN [sessions EXCEPT !.signingIn = Started(@, TRUE)]
       ELSE [onAuthStateChange([sessions EXCEPT !.auth = u], u)
               EXCEPT !.signingIn = Started(@, FALSE)]
  /\ AuthFrame

\* signIn after its await: the toast "Sign In Error", or nothing.
signIn_then(error) ==
  /\ BagIn(error, sessions.signingIn)
  /\ sessions' =
       IF error THEN [sessions EXCEPT !.signingIn = Ended(@, error),
                                      !.toast = "Sign In Error"]
       ELSE [sessions EXCEPT !.signingIn = Ended(@, error)]
  /\ AuthFrame

\* TOKEN_REFRESHED: the listener receives the session the client already holds.
useAuth_tokenRefreshed ==
  /\ sessions.auth # NULL
  /\ sessions' = onAuthStateChange(sessions, sessions.auth)
  /\ AuthFrame

\* useAuth.signOut up to its await of supabase.auth.signOut(); the function
\* has no test of its own, and the page that offers the button (DashboardLayout)
\* calls it whatever this hook holds.  With an error the client keeps its
\* session; otherwise it drops the session, if it has one, and the listener
\* receives SIGNED_OUT inside the awaited call.
signOut(error) ==
  /\ sessions' =
       IF error THEN [sessions EXCEPT !.signingOut = Started(@, TRUE)]
       ELSE [onAuthStateChange([sessions EXCEPT !.auth = NULL], NULL)
               EXCEPT !.signingOut = Started(@, FALSE)]
  /\ AuthFrame

\* signOut after its await: the toast of the error, or setUser(null),
\* setSession(null), setProfile(null) and the toast "Signed Out".
signOut_then(error) ==
  /\ BagIn(error, sessions.signingOut)
  /\ sessions' =
       IF error THEN [sessions EXCEPT !.signingOut = Ended(@, error), !.toast = "Error"]
       ELSE [sessions EXCEPT !.signingOut = Ended(@, error),
                             !.user = NULL, !.session = NULL, !.profile = NoRow,
                             !.toast = "Signed Out"]
  /\ AuthFrame

\* UPDATE profiles SET updates WHERE id = id ... .select().single() with the
\* token of caller: the row as written when the policies let the caller see
\* and update it, an error when no row comes back.
UpdatedProfile(caller, id, updates) ==
  IF profiles[id] # NoRow /\ ProfilesSelectPolicy(caller, id)
     /\ UsersCanUpdateOwnProfile(caller, id)
  THEN [error |-> FALSE,
        data |-> [id |-> id, role |-> ApplyPatch(profiles[id], updates).role,
                  hospital_id |-> ApplyPatch(profiles[id], updates).hospital_id,
                  full_name |-> ApplyPatch(profiles[id], updates).full_name]]
  ELSE [error |-> TRUE, data |-> NoRow]

\* useAuth.updateProfile(updates) up to its await: without a user it returns
\* at once; otherwise the request names the hook's user.id and leaves with
\* the token the client holds.
updateProfile(updates) ==
  LET answer == UpdatedProfile(sessions.auth, sessions.user, updates)
  IN /\ sessions.user # NULL
     /\ profiles' = IF answer.error THEN profiles
                    ELSE [profiles EXCEPT ![sessions.user] = ApplyPatch(@, updates)]
     /\ sessions' = [sessions EXCEPT !.updating = Started(@, answer)]
     /\ UNCHANGED <<hospitals, departments, doctor_hospitals, doctor_departments,
                    patients, referrals, last>>

\* updateProfile after its await: the toast "Update Error", or
\* setProfile(data) and the toast "Profile Updated".
updateProfile_then(answer) ==
  /\ BagIn(answer, sessions.updating)
  /\ sessions' =
       IF answer.error
       THEN [sessions EXCEPT !.updating = Ended(@, answer), !.toast = "Update Error"]
       ELSE [sessions EXCEPT !.updating = Ended(@, answer), !.profile = answer.data,
                             !.toast = "Profile Updated"]
  /\ AuthFrame

\* supabase.auth.getSession().then(...): the session the client holds now;
\* with a user the profile request leaves with that session's token.
getSession_then ==
  /\ sessions.getSession = "pending"
  /\ sessions' =
       IF sessions.auth # NULL
       THEN [sessions EXCEPT !.session = sessions.auth, !.user = sessions.auth,
                             !.getSession = "fetch",
                             !.fetched = SingleProfile(sessions.auth, sessions.auth)]
       ELSE [sessions EXCEPT !.session = NULL, !.user = NULL, !.loading = FALSE,
                             !.getSession = "done"]
  /\ AuthFrame

\* The .then of that profile request.
getSession_fetched ==
  /\ sessions.getSession = "fetch"
  /\ sessions' =
       [sessions EXCEPT !.profile = IF ~sessions.fetched.error /\ sessions.fetched.data # NoRow
                                    THEN sessions.fetched.data ELSE @,
                        !.loading = FALSE,
                        !.getSession = "done",
                        !.fetched = NoRow]
  /\ AuthFrame

\* The setTimeout callback starts: the request for the profile of the event's
\* user leaves with the token the client holds at that moment.
deferred_request(item) ==
  /\ BagIn(item, sessions.deferred)
  /\ item.stage = "timer"
  /\ sessions' =
       [sessions EXCEPT !.deferred =
          Moved(@, item, [id |-> item.id, stage |-> "response",
                          result |-> SingleProfile(sessions.auth, item.id)])]
  /\ AuthFrame

\* The request's answer arrives and the callback ends.
deferred_response(item) ==
  /\ BagIn(item, sessions.deferred)
  /\ item.stage = "response"
  /\ sessions' = [InstallProfile(sessions, item) EXCEPT !.deferred = Ended(@, item)]
  /\ AuthFrame

\* ------------------------------------------------------------ SpecAuth
\* One mounted useAuth hook in a browser that stored no session or the
\* session of a doctor or a patient; sign-ins, token refreshes and sign-outs
\* arrive in any order with the callbacks the effect left running.  The event
\* loop runs every callback that is due.
HookUsers == {"u2", "u6"}

InitAuth ==
  /\ profiles = StaffProfiles
  /\ hospitals = HospitalRows
  /\ departments = DepartmentRows
  /\ doctor_hospitals = NoRows
  /\ doctor_departments = NoRows
  /\ patients = NoRows
  /\ referrals = NoRows
  /\ \E stored \in HookUsers \cup {NULL} : sessions = MountedHook(stored)
  /\ last = NoResponse

DoInitialSession == useAuth_initialSession

\* An event or a call that adds a callback is taken while fewer than
\* MaxCallbacks callbacks of the hook wait.
DoSignIn ==
  /\ Callbacks(sessions) < MaxCallbacks
  /\ \E u \in HookUsers, error \in BOOLEAN : signIn(u, error)

DoSignInThen == \E error \in BOOLEAN : signIn_then(error)

DoTokenRefreshed ==
  /\ Callbacks(sessions) < MaxCallbacks
  /\ useAuth_tokenRefreshed

DoSignOut ==
  /\ Callbacks(sessions) < MaxCallbacks
  /\ \E error \in BOOLEAN : signOut(error)

DoSignOutThen == \E error \in BOOLEAN : signOut_then(error)

\* The updates a caller of updateProfile passes in the model.
ProfileUpdates == {[role |-> "admin"], [full_name |-> "name-x"]}

DoUpdateProfile ==
  /\ Callbacks(sessions) < MaxCallbacks
  /\ \E updates \in ProfileUpdates : updateProfile(updates)

DoUpdateProfileThen == \E answer \in BagToSet(sessions.updating) : updateProfile_then(answer)

DoGetSessionThen == getSession_then

DoGetSessionFetched == getSession_fetched

DoDeferredRequest == \E item \in BagToSet(sessions.deferred) : deferred_request(item)

DoDeferredResponse == \E item \in BagToSet(sessions.deferred) : deferred_response(item)

NextAuth ==
  \/ DoInitialSession
  \/ DoSignIn
  \/ DoSignInThen
  \/ DoTokenRefreshed
  \/ DoSignOut
  \/ DoSignOutThen
  \/ DoGetSessionThen
  \/ DoGetSessionFetched
  \/ DoDeferredRequest
  \/ DoDeferredResponse

EventLoop ==
  /\ WF_vars(DoInitialSession)
  /\ WF_vars(DoGetSessionThen)
  /\ WF_vars(DoGetSessionFetched)
  /\ WF_vars(DoDeferredRequest)
  /\ WF_vars(DoDeferredResponse)
  /\ WF_vars(DoSignInThen)
  /\ WF_vars(DoSignOutThen)

SpecAuth == InitAuth /\ [][NextAuth]_vars /\ EventLoop

\* ------------------------------------------------------------ SpecAccount
\* The same hook with a caller of updateProfile added.
NextAccount ==
  \/ NextAuth
  \/ DoUpdateProfile
  \/ DoUpdateProfileThen

SpecAccount ==
  InitAuth /\ [][NextAccount]_vars /\ EventLoop /\ WF_vars(DoUpdateProfileThen)

\* ------------------------------------------------------------ the claims' vocabulary
\* The caller's profile as the claims speak of it: its role and home hospital.
RoleOf(c) == IF c \in Users /\ profiles[c] # NoRow THEN profiles[c].role ELSE "none"
HomeHospitalOf(c) == IF c \in Users /\ profiles[c] # NoRow THEN profiles[c].hospital_id ELSE NULL

\* ------------------------------------------------------------ C2
MayReadReferral(c, r) ==
  /\ c # NULL
  /\ \/ r.referring_doctor_id = c
     \/ r.target_specialist_id = c
     \/ (RoleOf(c) = "specialist" /\ HomeHospitalOf(c) # NULL
           /\ HomeHospitalOf(c) = r.target_hospital_id)
     \/ RoleOf(c) = "admin"

\* C2: a direct read of referrals returns a row if and only if the caller is
\* its referring doctor, or its target specialist, or a specialist whose home
\* hospital is the referral's target hospital, or an admin; every other
\* caller gets zero rows.
C2_ReferralReadIff ==
  last.op = "select_referrals" =>
    last.rows = {k \in DOMAIN referrals : MayReadReferral(last.caller, referrals[k])}

\* A doctor of another hospital than the referral's, who did not create it,
\* reads the table holding it and gets nothing.
C2_Witness ==
  /\ last.op = "select_referrals"
  /\ last.caller = "u3"
  /\ last.rows = {}
  /\ \E k \in DOMAIN referrals :
       referrals[k].referring_doctor_id = "u2" /\ referrals[k].target_hospital_id = "h1"

\* ------------------------------------------------------------ C6
MayUpdateAsSpecialist(c, r) ==
  \/ r.target_specialist_id = c
  \/ (HomeHospitalOf(c) # NULL /\ HomeHospitalOf(c) = r.target_hospital_id)

\* C6: an update of a referral by a caller of role specialist writes the row
\* if and only if the caller is its target specialist or the caller's home
\* hospital is its target hospital; any other specialist's update leaves the
\* table as it was.
C6_SpecialistUpdateIff ==
  [][(last'.op \in {"update_status", "update_referral"} /\ RoleOf(last'.caller) = "specialist")
       => IF MayUpdateAsSpecialist(last'.caller, referrals[last'.key])
          THEN /\ last'.rows = {last'.key}
               /\ referrals' = [referrals EXCEPT
                                  ![last'.key] = ApplyPatch(referrals[last'.key], last'.arg)]
          ELSE /\ last'.rows = {}
               /\ referrals' = referrals]_vars

\* The specialist of h1 tried to update a referral to h2 that is not assigned
\* to them, and nothing was written.
C6_Witness ==
  /\ last.op = "update_status"
  /\ last.caller = "u4"
  /\ last.rows = {}
  /\ last.key \in DOMAIN referrals
  /\ referrals[last.key].target_hospital_id = "h2"
  /\ referrals[last.key].target_specialist_id = NULL
  /\ referrals[last.key].status # last.arg.status

\* ------------------------------------------------------------ C7
MayInsertReferral(c, new) ==
  /\ c # NULL
  /\ new.referring_doctor_id = c
  /\ RoleOf(c) \in {"doctor", "specialist", "admin"}

\* C7: an insert into referrals is admitted if and only if the new row's
\* referring_doctor_id is the caller and the caller's role is doctor,
\* specialist or admin; any other insert is rejected and adds no row.
C7_ReferralInsertIff ==
  [][last'.op = "insert_referral"
       => IF MayInsertReferral(last'.caller, last'.arg)
          THEN /\ last'.outcome = "ok"
               /\ DOMAIN referrals' = DOMAIN referrals \cup {last'.key}
               /\ last'.key \notin DOMAIN referrals
               /\ referrals'[last'.key].referring_doctor_id = last'.caller
          ELSE /\ last'.outcome = "rls_violation"
               /\ referrals' = referrals]_vars

\* The specialist of h1 created a referral in their own name, and a doctor's
\* insert naming another doctor is the case the action property's ELSE covers.
C7_Witness ==
  /\ last.op = "insert_referral"
  /\ last.caller = "u4"
  /\ last.outcome = "ok"
  /\ last.key \in DOMAIN referrals
  /\ referrals[last.key].referring_doctor_id = "u4"

\* ------------------------------------------------------------ C10
\* C10: once a referral or patient row exists, no admitted operation changes
\* its business identifier (referral_id, patient_id).
C10_IdentifierImmutable ==
  [][/\ \A k \in DOMAIN referrals \cap DOMAIN referrals' :
          referrals'[k].referral_id = referrals[k].referral_id
     /\ \A k \in DOMAIN patients \cap DOMAIN patients' :
          patients'[k].patient_id = patients[k].patient_id]_vars

\* ------------------------------------------------------------ C1
\* C1: a profile's role changes only by an update whose caller has role
\* admin; no other caller changes a role, their own included, through the
\* profile self-update.
C1_RoleChangesOnlyByAdmin ==
  [][\A u \in Users :
       (profiles[u] # NoRow /\ profiles'[u] # NoRow /\ profiles'[u].role # profiles[u].role)
         => RoleOf(last'.caller) = "admin"]_vars

\* ------------------------------------------------------------ C3
MayReadPatient(c, p) ==
  /\ RoleOf(c) \in {"doctor", "specialist", "admin"}
  /\ \/ RoleOf(c) = "admin"
     \/ (HomeHospitalOf(c) # NULL /\ HomeHospitalOf(c) = p.current_hospital_id)

\* C3: a patient row is readable if and only if the caller's role is doctor,
\* specialist or admin and the caller is an admin or has the patient's
\* current hospital as home hospital, all policies on patients taken together.
C3_PatientReadIff ==
  last.op = "select_patients" =>
    last.rows = {k \in DOMAIN patients : MayReadPatient(last.caller, patients[k])}

\* ------------------------------------------------------------ C4
\* Stores that differ from the current one only in fields outside the
\* projection: the referrals' specialist_notes, the patients' medical history
\* and current hospital, the profiles' role and home hospital, the hospitals'
\* address and phone, the departments' hospital.
ReferralsVariants ==
  {[k \in DOMAIN referrals |-> [referrals[k] EXCEPT !.specialist_notes = f[k]]] :
     f \in [DOMAIN referrals -> {NULL, "other"}]}

PatientsVariants ==
  {[k \in DOMAIN patients |-> [patients[k] EXCEPT !.medical_history = m, !.current_hospital_id = h]] :
     m \in {"history-a", "history-b"}, h \in Hospitals \cup {NULL}}

ProfilesVariants ==
  {[u \in Identities |-> [profiles[u] EXCEPT !.role = ro, !.hospital_id = h]] :
     ro \in user_role, h \in Hospitals \cup {NULL}}

HospitalsVariants ==
  {[h \in DOMAIN hospitals |-> [hospitals[h] EXCEPT !.address = a, !.phone = a]] :
     a \in {"addr-x", hospitals["h1"].address}}

DepartmentsVariants ==
  {[d \in DOMAIN departments |-> [departments[d] EXCEPT !.hospital_id = h]] : h \in Hospitals}

\* C4: the output of get_referral_public does not depend on any field outside
\* the fixed projection: in every store that differs from the current one only
\* in such fields (the referrals' notes together with the fields of one other
\* table at a time), the function returns for the identifier just looked up
\* what it returned in the current store.
C4_PublicOutputIndependent ==
  last.op = "get_referral_public" =>
    LET profs == [u \in Identities |-> profiles[u]]
        id == last.arg
    IN /\ \A refs \in ReferralsVariants, pats \in PatientsVariants :
            get_referral_public(refs, pats, profs, hospitals, departments, id) = last.rows
       /\ \A refs \in ReferralsVariants, profs2 \in ProfilesVariants :
            get_referral_public(refs, patients, profs2, hospitals, departments, id) = last.rows
       /\ \A refs \in ReferralsVariants, hosps \in HospitalsVariants, depts \in DepartmentsVariants :
            get_referral_public(refs, patients, profs, hosps, depts, id) = last.rows

\* A referral that carries specialist notes was looked up and returned.
C4_Witness ==
  /\ last.op = "get_referral_public"
  /\ Len(last.rows) = 1
  /\ \E k \in DOMAIN referrals :
       /\ referrals[k].referral_id = last.rows[1].referral_id
       /\ referrals[k].specialist_notes = "secret"

\* ------------------------------------------------------------ C5
\* The row the public function owes for referral k.
PublicRowOf(k) ==
  LET r == referrals[k]
  IN Projection(r, patients[r.patient_id],
                LeftJoinProfile(profiles, r.referring_doctor_id),
                LeftJoinProfile(profiles, r.target_specialist_id),
                hospitals[r.origin_hospital_id], hospitals[r.target_hospital_id],
                departments[r.target_department_id])

\* C5 as stated: for any caller and every referral in the store, the function
\* called with the referral's identifier in any upper/lower-case spelling
\* returns exactly that referral's projection; called with an identifier that
\* matches no referral it returns zero rows and no error.
C5_EveryReferralFound ==
  last.op = "get_referral_public" =>
    /\ last.outcome = "ok"
    /\ \A k \in DOMAIN referrals :
         last.arg \in Spellings(referrals[k].referral_id) => last.rows = <<PublicRowOf(k)>>
    /\ (\A k \in DOMAIN referrals : last.arg \notin Spellings(referrals[k].referral_id))
         => last.rows = <<>>

\* C5 amended: the same for every referral whose stored identifier holds no
\* lower-case letter, as every generated identifier does.
C5_UpperCaseReferralFound ==
  last.op = "get_referral_public" =>
    /\ last.outcome = "ok"
    /\ \A k \in DOMAIN referrals :
         (/\ last.arg \in Spellings(referrals[k].referral_id)
          /\ \A i \in DOMAIN referrals[k].referral_id :
               referrals[k].referral_id[i] = UpperChar(referrals[k].referral_id[i]))
           => last.rows = <<PublicRowOf(k)>>
    /\ (\A k \in DOMAIN referrals : last.arg \notin Spellings(referrals[k].referral_id))
         => last.rows = <<>>

\* A visitor without a session typed a generated identifier in lower case and
\* got its one row.
C5_Witness ==
  /\ last.op = "get_referral_public"
  /\ last.caller = NULL
  /\ last.arg = <<"r", "e", "f", "-">> \o CurrentYear \o <<"-", "0", "0", "0", "0", "0", "0">>
  /\ Len(last.rows) = 1
  /\ last.rows[1].referral_id = ReferralCandidate(0)
  /\ last.shown.referralDetails # NoRow

\* ------------------------------------------------------------ C8
\* C8: in every reachable state, under any interleaving of concurrent inserts
\* and updates, no two patient rows share a patient_id and no two referral
\* rows share a referral_id.
C8_IdentifiersUnique ==
  /\ \A k \in DOMAIN referrals, j \in DOMAIN referrals :
       k # j => referrals[k].referral_id # referrals[j].referral_id
  /\ \A k \in DOMAIN patients, j \in DOMAIN patients :
       k # j => patients[k].patient_id # patients[j].patient_id

\* Two sessions' generators returned the same candidate; one row was stored
\* and the unique index refused the other.
C8_Witness ==
  \E i \in DOMAIN sessions, j \in DOMAIN sessions :
    /\ i # j
    /\ sessions[i].table = "referrals" /\ sessions[j].table = "referrals"
    /\ sessions[i].supplied = NullText /\ sessions[j].supplied = NullText
    /\ sessions[i].outcome = "ok" /\ sessions[j].outcome = "unique_violation"
    /\ sessions[i].id = sessions[j].id
    /\ sessions[i].id \in ReferralIds

\* ------------------------------------------------------------ C9
\* C9: when concurrent inserts without a caller-supplied identifier pick the
\* same candidate, the uniqueness violation is caught and retried by the
\* generator: no such insert is answered with a uniqueness error.
C9_NoUniquenessErrorSurfaced ==
  \A i \in DOMAIN sessions :
    sessions[i].supplied = NullText => sessions[i].outcome # "unique_violation"

\* ------------------------------------------------------------ C11
\* C11: a referral's status only moves along pending -> in_progress ->
\* completed, or from a non-terminal state to cancelled: in every step a
\* completed or cancelled referral keeps its status, and no referral that has
\* left pending returns to it.
C11_StatusLifecycle ==
  [][\A k \in DOMAIN referrals :
       k \in DOMAIN referrals' =>
         LET before == referrals[k].status
             after == referrals'[k].status
         IN \/ after = before
            \/ before \notin {"completed", "cancelled"} /\ after # "pending"]_vars

\* ------------------------------------------------------------ C12
\* C12: an update of a referral's status issued by a caller with role admin
\* is admitted, and the stored status becomes the requested value.
C12_AdminTransitionsStatus ==
  (last.op = "update_status" /\ RoleOf(last.caller) = "admin") =>
    /\ last.rows = {last.key}
    /\ referrals[last.key].status = last.arg.status

\* ------------------------------------------------------------ C13
\* C13: no operation by any caller removes a referral row from the store:
\* every referral of a state is a referral of the next state.
C13_ReferralsNeverRemoved ==
  [][\A k \in DOMAIN referrals :
       k \in DOMAIN referrals' /\ referrals'[k].referral_id = referrals[k].referral_id]_vars

\* ------------------------------------------------------------ C14
\* C14: a write the policies deny ends in an error returned to the caller: a
\* referral update that wrote no row has an error outcome, and the handler
\* that sent it does not report success.
C14_DeniedWriteIsAnError ==
  (last.op \in {"update_status", "update_referral"} /\ last.rows = {}) =>
    /\ last.outcome # "ok"
    /\ last.shown.toast # "Success"

\* ------------------------------------------------------------ C15
\* C15: a profile row is readable by a caller if and only if it is the
\* caller's own row or the caller's role is admin, and an insert into
\* profiles passes the policy only for an admin caller; every read of and
\* insert into profiles, by any caller, ends with an answer of the policies
\* and never with the policy of profiles entered from within itself, the
\* policies reading no table as the caller (the role lookup is
\* has_profile_role's own read of the table, outside row security).
C15_ProfileReadAndInsert ==
  /\ last.op = "select_profiles" =>
       last.rows = {u \in Identities : u = last.caller \/ RoleOf(last.caller) = "admin"}
  /\ last.op = "insert_profile" =>
       (last.outcome # "rls_violation" <=> RoleOf(last.caller) = "admin")
  /\ last.op \in {"select_profiles", "insert_profile"} =>
       /\ last.outcome # "infinite_recursion"
       /\ "profiles" \notin ProfilesPolicyReads

\* An admin read the profiles and got a row that is not their own, while a
\* second identity exists.
C15_Witness ==
  /\ last.op = "select_profiles"
  /\ last.outcome = "ok"
  /\ RoleOf(last.caller) = "admin"
  /\ \E u \in last.rows : u # last.caller

\* ------------------------------------------------------------ C19
\* C19: creating an identity creates, in the same step, the one profile row
\* of that identity, its role the role of the sign-up metadata or patient
\* when there is none; no step removes a profile row or touches another
\* identity's row while signing up.
C19_SignUpCreatesProfile ==
  [][/\ (last'.op = "sign_up" /\ last'.outcome = "ok" /\ last' # last) =>
          \E id \in Users :
            /\ last'.rows = {id}
            /\ profiles[id] = NoRow
            /\ profiles'[id] # NoRow
            /\ profiles'[id].role = IF last'.arg.role = NULL THEN "patient" ELSE last'.arg.role
            /\ \A u \in Users \ {id} : profiles'[u] = profiles[u]
     /\ \A u \in Users : profiles[u] # NoRow => profiles'[u] # NoRow]_vars

\* Two identities signed up, the second as a doctor, and both have their
\* profile.
C19_Witness ==
  /\ last.op = "sign_up"
  /\ last.arg.role = "doctor"
  /\ Cardinality(Identities) = 2
  /\ \E id \in last.rows : profiles[id] # NoRow /\ profiles[id].role = "doctor"

\* ------------------------------------------------------------ C16
\* C16: an insert, update or delete on patients is admitted if and only if
\* the caller's role is doctor or admin: such a caller's request passes the
\* policy and reaches its row, and any other caller's request leaves the
\* table as it was.
C16_PatientWriteIff ==
  [][last'.op \in {"insert_patient", "update_patient", "delete_patient"} =>
       IF RoleOf(last'.caller) \in {"doctor", "admin"}
       THEN /\ last'.outcome # "rls_violation"
            /\ last'.op # "insert_patient" =>
                 (last'.rows = {last'.key} \/ last'.outcome = "unique_violation")
       ELSE /\ patients' = patients
            /\ last'.rows = {}
            /\ last'.op = "insert_patient" => last'.outcome = "rls_violation"]_vars

\* A doctor sent a DELETE for a patient and the row is gone.
C16_Witness ==
  /\ last.op = "delete_patient"
  /\ RoleOf(last.caller) = "doctor"
  /\ last.rows = {last.key}
  /\ last.key \notin DOMAIN patients

\* ------------------------------------------------------------ C17
\* C17: every authenticated caller reads every hospital and department row
\* and a caller without a session reads none; a hospital insert, update or
\* delete is admitted iff the caller's role is admin, a department insert,
\* update or delete iff it is admin or doctor; a request that is not
\* admitted leaves both tables as they were.
HospitalWrites == {"insert_hospital", "update_hospital", "delete_hospital"}

DepartmentWrites == {"insert_department", "update_department", "delete_department"}

\* The answer of a write the policy let through: its row was reached, or a
\* foreign key refused the statement.
Admitted(response) ==
  /\ response.outcome # "rls_violation"
  /\ response.rows = {response.key} \/ response.outcome = "foreign_key_violation"

C17_DirectoryAccess ==
  [][/\ last'.op = "select_hospitals" =>
          last'.rows = IF last'.caller # NULL THEN DOMAIN hospitals ELSE {}
     /\ last'.op = "select_departments" =>
          last'.rows = IF last'.caller # NULL THEN DOMAIN departments ELSE {}
     /\ last'.op \in HospitalWrites =>
          IF RoleOf(last'.caller) = "admin"
          THEN Admitted(last')
          ELSE ~Admitted(last') /\ hospitals' = hospitals /\ departments' = departments
     /\ last'.op \in DepartmentWrites =>
          IF RoleOf(last'.caller) \in {"admin", "doctor"}
          THEN Admitted(last')
          ELSE ~Admitted(last') /\ hospitals' = hospitals /\ departments' = departments]_vars

\* A doctor's update of a department was written.
C17_Witness ==
  /\ last.op = "update_department"
  /\ RoleOf(last.caller) = "doctor"
  /\ last.rows = {last.key}
  /\ departments[last.key].description = "descr-x"

\* ------------------------------------------------------------ C18
AssignmentWrites == {"insert_assignment", "update_assignment", "delete_assignment"}

\* The answer of a junction-table write the policy let through: its row was
\* reached, or a constraint refused the statement.
AssignmentAdmitted(response) ==
  \/ response.outcome = "ok" /\ response.rows = {response.key}
  \/ response.outcome \in {"unique_violation", "foreign_key_violation"}

\* No two rows of table t agree on the columns of its unique constraint.
PairsAtMostOnce(t, table) ==
  \A j, k \in DOMAIN table :
    UniqueColumns(t, table[j]) = UniqueColumns(t, table[k]) => j = k

\* C18: on doctor_hospitals and doctor_departments a caller who is not an
\* admin reads exactly the rows whose doctor_id is the caller's identity and
\* an admin reads every row; an insert, update or delete is admitted iff the
\* caller's role is admin, and otherwise leaves both tables as they were;
\* each (doctor, hospital) pair and each (doctor, department, hospital)
\* triple is stored at most once.
C18_AssignmentAccess ==
  [][/\ last'.op = "select_assignments" =>
          LET table == IF last'.arg.table = "doctor_hospitals"
                       THEN doctor_hospitals' ELSE doctor_departments'
          IN last'.rows = {k \in DOMAIN table :
                             \/ RoleOf(last'.caller) = "admin"
                             \/ (last'.caller # NULL /\ table[k].doctor_id = last'.caller)}
     /\ last'.op \in AssignmentWrites =>
          IF RoleOf(last'.caller) = "admin"
          THEN AssignmentAdmitted(last')
          ELSE /\ ~AssignmentAdmitted(last')
               /\ doctor_hospitals' = doctor_hospitals
               /\ doctor_departments' = doctor_departments
     /\ PairsAtMostOnce("doctor_hospitals", doctor_hospitals')
     /\ PairsAtMostOnce("doctor_departments", doctor_departments')]_vars

\* A doctor with an assignment of their own and one of another doctor in
\* doctor_departments read the table and got their own row only.
C18_Witness ==
  /\ last.op = "select_assignments"
  /\ last.arg.table = "doctor_departments"
  /\ RoleOf(last.caller) = "doctor"
  /\ Cardinality(last.rows) = 1
  /\ Cardinality(DOMAIN doctor_departments) = 2
  /\ \A k \in last.rows : doctor_departments[k].doctor_id = last.caller

\* ------------------------------------------------------------ C20
\* The number a sequence of decimal digits writes.
RECURSIVE DecimalValue(_)
DecimalValue(s) ==
  IF s = <<>> THEN 0
  ELSE 10 * DecimalValue(SubSeq(s, 1, Len(s) - 1))
       + (CHOOSE d \in 0..9 : DigitChars[d + 1] = s[Len(s)])

IsDigits(s) == \A i \in DOMAIN s : \E d \in 1..10 : DigitChars[d] = s[i]

\* id is prefix, a hyphen, the four digits of the year, a hyphen and exactly
\* six digits that write n.
HasIdShape(id, prefix, n) ==
  /\ Len(id) = 15
  /\ SubSeq(id, 1, 3) = prefix
  /\ id[4] = "-"
  /\ SubSeq(id, 5, 8) = CurrentYear
  /\ IsDigits(SubSeq(id, 5, 8))
  /\ id[9] = "-"
  /\ IsDigits(SubSeq(id, 10, 15))
  /\ DecimalValue(SubSeq(id, 10, 15)) = n

\* C20: once the insert trigger has run, a row that supplied no identifier
\* holds PAT-YYYY-NNNNNN (patients) or REF-YYYY-NNNNNN (referrals) with the
\* four-digit year and exactly six zero-padded digits writing the draw of
\* the random source, whatever the draw; a row that supplied an identifier
\* holds it unchanged.
C20_IdentifierFormat ==
  sessions.pc = "done" =>
    IF sessions.supplied = NullText
    THEN HasIdShape(sessions.id,
                    IF sessions.table = "patients" THEN <<"P", "A", "T">> ELSE <<"R", "E", "F">>,
                    sessions.draw)
    ELSE sessions.id = sessions.supplied

\* The trigger gave a patient row without identifier PAT-2025-000099.
C20_Witness ==
  /\ sessions.pc = "done"
  /\ sessions.table = "patients"
  /\ sessions.supplied = NullText
  /\ sessions.draw = 99
  /\ sessions.id = <<"P", "A", "T", "-", "2", "0", "2", "5", "-", "0", "0", "0", "0", "9", "9">>

\* ------------------------------------------------------------ C21
\* C21: in every reachable state the target department of each referral is
\* a department of the referral's target hospital.
C21_DepartmentBelongsToHospital ==
  \A k \in DOMAIN referrals :
    /\ referrals[k].target_department_id \in DOMAIN departments
    /\ departments[referrals[k].target_department_id].hospital_id
         = referrals[k].target_hospital_id

\* ------------------------------------------------------------ C25
\* C25: when a submission of handleCreateReferral has ended, the patient
\* row it created exists iff its referral row exists (before any has ended,
\* and after one that created no patient, neither exists).
C25_CreateIsAtomic ==
  (sessions.patient \in DOMAIN patients) <=> (sessions.referral \in DOMAIN referrals)

\* ------------------------------------------------------------ C30
\* C30: the step of handleCreateReferral that stores the referral of a
\* submission stores it with origin_hospital_id equal to target_hospital_id,
\* the hospital selected at the submit; the patient created by the
\* submission has that hospital as current_hospital_id; referring_doctor_id
\* is the caller, status is pending and urgency is the one selected at the
\* submit.
C30_CreatedReferralColumns ==
  [][\A h \in BagToSet(sessions.handlers) :
       (/\ h.pc = "referral"
        /\ sessions'.handlers = Ended(sessions.handlers, h)
        /\ sessions'.toast = "Success") =>
         LET r == referrals'[sessions'.referral]
         IN /\ sessions'.referral \in DOMAIN referrals' \ DOMAIN referrals
            /\ r.target_hospital_id = h.target_hospital_id
            /\ r.origin_hospital_id = r.target_hospital_id
            /\ r.patient_id = h.patient
            /\ patients'[r.patient_id].current_hospital_id = r.target_hospital_id
            /\ r.referring_doctor_id = sessions.caller
            /\ r.status = "pending"
            /\ r.urgency = h.urgency]_vars

\* Doctor u2 of hospital h1 created a critical referral to hospital h2.
C30_Witness ==
  /\ sessions.toast = "Success"
  /\ sessions.caller = "u2"
  /\ sessions.referral \in DOMAIN referrals
  /\ referrals[sessions.referral].urgency = "critical"
  /\ referrals[sessions.referral].target_hospital_id = "h2"
  /\ referrals[sessions.referral].origin_hospital_id = "h2"

\* ------------------------------------------------------------ C26
\* C26: a signed-in caller with role patient who searches the identifier of
\* a stored referral in the patient portal is shown the referral's details
\* and not "Referral Not Found".
C26_PatientFindsReferral ==
  (/\ last.op = "patient_dashboard_search"
   /\ RoleOf(last.caller) = "patient"
   /\ \E k \in DOMAIN referrals : referrals[k].referral_id = last.arg)
  => /\ last.shown.toast # "Referral Not Found"
     /\ last.shown.referralDetails # NoRow

\* ------------------------------------------------------------ C27
ReadableReferrals(c) ==
  {k \in DOMAIN referrals : ReferralsSelectPolicy(c, referrals[k])}

UpdatableReferrals(c) ==
  {k \in ReadableReferrals(c) : SpecialistsCanUpdateAssignedReferrals(c, referrals[k])}

ReadablePatients(c) ==
  {k \in DOMAIN patients : PatientsSelectPolicy(c, patients[k])}

UpdatablePatients(c) ==
  {k \in ReadablePatients(c) : PatientsWritePolicy(c, patients[k])}

\* C27: no request of a caller who is not an admin changes the caller's own
\* role or hospital_id, and none enlarges the sets of referral and patient
\* rows the caller can read or update.
C27_ReachNeverGrows ==
  [][RoleOf(sessions.caller) # "admin" =>
       /\ profiles'[sessions.caller].role = profiles[sessions.caller].role
       /\ profiles'[sessions.caller].hospital_id = profiles[sessions.caller].hospital_id
       /\ ReadableReferrals(sessions.caller)' \subseteq ReadableReferrals(sessions.caller)
       /\ UpdatableReferrals(sessions.caller)' \subseteq UpdatableReferrals(sessions.caller)
       /\ ReadablePatients(sessions.caller)' \subseteq ReadablePatients(sessions.caller)
       /\ UpdatablePatients(sessions.caller)' \subseteq UpdatablePatients(sessions.caller)]_vars

\* ------------------------------------------------------------ C24
\* C24: when the UPDATE of a permitted caller's submission reaches the
\* store, whatever another caller wrote since this caller's read or since the
\* click, it is admitted without an error, and the stored status,
\* specialist_notes and appointment_date are then exactly those the dialog
\* held at the click: the notes of an earlier writer that the dialog did not
\* hold are gone; and when the handler goes on it reports "Success".
C24_LaterWriteWins ==
  [][\A u \in Reviewers : \A h \in BagToSet(sessions[u].handlers) :
       /\ (/\ h.pc = "update"
           /\ \E e \in BOOLEAN :
                sessions'[u].handlers
                  = Moved(sessions[u].handlers, h, [h EXCEPT !.pc = "then", !.error = e]))
          => /\ BagIn([h EXCEPT !.pc = "then", !.error = FALSE], sessions'[u].handlers)
             /\ referrals'[h.key].status = h.updateData.status
             /\ referrals'[h.key].specialist_notes
                  = (IF h.updateData.specialist_notes = "" THEN NULL
                     ELSE h.updateData.specialist_notes)
             /\ referrals'[h.key].appointment_date
                  = (IF h.updateData.appointment_date = "" THEN NULL
                     ELSE h.updateData.appointment_date)
       /\ (h.pc = "then" /\ sessions'[u].handlers = Ended(sessions[u].handlers, h))
          => sessions'[u].toast = "Success"]_vars

\* Both specialists fetched the referral while it was pending and both
\* submitted the dialog, u4 with notes and u5 with none; both UPDATEs were
\* answered without an error, u5's last: the row holds u5's in_progress and
\* no notes.
C24_Witness ==
  /\ \E h \in BagToSet(sessions["u4"].handlers) :
       h.pc = "then" /\ ~h.error /\ h.updateData.specialist_notes = "note-u4"
  /\ \E h \in BagToSet(sessions["u5"].handlers) :
       h.pc = "then" /\ ~h.error /\ h.updateData.specialist_notes = ""
  /\ sessions["u5"].referrals[1].status = "pending"
  /\ sessions["u4"].referrals[1].status = "pending"
  /\ referrals[1].status = "in_progress"
  /\ referrals[1].specialist_notes = NULL

\* ------------------------------------------------------------ C22
\* C22: after every handleHospitalToggle no selected department belongs to
\* a hospital that is not selected; and when one admin alone has saved, every
\* stored doctor_departments row names a department of its hospital and a
\* hospital the doctor has a doctor_hospitals row for.
C22_DepartmentsFollowHospitals ==
  [][\A a \in Savers :
       /\ (/\ sessions[a].dialogOpen /\ sessions'[a].dialogOpen
           /\ sessions'[a].selectedHospitals # sessions[a].selectedHospitals)
          => \A d \in sessions'[a].selectedDepartments :
               sessions'[a].departments[d] \in sessions'[a].selectedHospitals
       /\ (/\ sessions[a].pc = "insert_departments" /\ sessions'[a].toast = "Success"
           /\ \A b \in Savers \ {a} : sessions[b].saved = NoRow)
          => \A k \in DOMAIN doctor_departments' :
               /\ departments[doctor_departments'[k].department_id].hospital_id
                    = doctor_departments'[k].hospital_id
               /\ \E j \in DOMAIN doctor_hospitals' :
                    /\ doctor_hospitals'[j].doctor_id = doctor_departments'[k].doctor_id
                    /\ doctor_hospitals'[j].hospital_id = doctor_departments'[k].hospital_id]_vars

\* ------------------------------------------------------------ C28
\* The assignments saveAssignments stores for the selections it was called
\* with.
SelectionOf(saved) ==
  [hospitals |-> saved.selectedHospitals,
   departments |-> {<<d, saved.departments[d]>> : d \in saved.selectedDepartments}]

\* C28: when saveAssignments of an admin ends, with "Success" or with
\* "Error", the doctor's stored hospitals and departments are exactly those
\* stored when the save began, or exactly the selection of one admin who
\* saves.
C28_SaveIsAtomic ==
  [][\A a \in Savers :
       (sessions[a].updating /\ ~sessions'[a].updating)
       => LET stored ==
                [hospitals |-> AssignedHospitals(sessions[a].saved.selectedDoctor)',
                 departments |-> AssignedDepartments(sessions[a].saved.selectedDoctor)']
          IN \/ stored = sessions[a].before
             \/ \E b \in Savers :
                  /\ sessions[b].saved # NoRow
                  /\ stored = SelectionOf(sessions[b].saved)]_vars

\* C23: generate_referral_id and generate_patient_id return an identifier no
\* row of their table holds at the moment of the check; under a fair random
\* source a loop returns whenever some candidate the random expression yields
\* is unused; and a loop whose every candidate is taken never returns.
IdsOfTable(table) == IF table = "referrals" THEN ReferralIds ELSE PatientIds

CandidateOfTable(table, n) ==
  IF table = "referrals" THEN ReferralCandidate(n) ELSE PatientCandidate(n)

SomeCandidateUnused(table) ==
  \E n \in RandomDraws : CandidateOfTable(table, n) \notin IdsOfTable(table)

InLoop(i) == sessions[i].pc = "generate"

C23_GeneratorLoop ==
  /\ [][\A i \in 1..MaxSessions :
          (InLoop(i) /\ ~InLoop(i)') =>
            /\ sessions[i].id' \notin IdsOfTable(sessions[i].table)
            /\ \E n \in RandomDraws : sessions[i].id' = CandidateOfTable(sessions[i].table, n)]_vars
  /\ \A i \in 1..MaxSessions :
       (InLoop(i) /\ SomeCandidateUnused(sessions[i].table)) ~> ~InLoop(i)
  /\ \A i \in 1..MaxSessions :
       []((InLoop(i) /\ ~SomeCandidateUnused(sessions[i].table)) => []InLoop(i))

\* A loop returned the one candidate its table did not hold, while the loop
\* of the other session is still running.
C23_Witness ==
  /\ sessions[1].pc = "insert"
  /\ sessions[1].table = "referrals"
  /\ ReferralCandidate(0) \in ReferralIds
  /\ sessions[1].id \notin ReferralIds
  /\ sessions[1].id # NullText
  /\ InLoop(2)

\* C29: in every state of the useAuth hook, whatever the order of the
\* auth-state-change events, the completions of the deferred profile fetches
\* and signOut, a hook without user holds no profile, and loading becomes
\* false eventually.
C29_NoProfileWithoutUser ==
  /\ [](sessions.user = NULL => sessions.profile = NoRow)
  /\ <>(sessions.loading = FALSE)

====
